---- MODULE Spec2Model ----
(***************************************************************************)
(* Metering / payment-credit layer of council_of_sages.                    *)
(*                                                                         *)
(* The store is the three MongoDB collections (users, usage_events,        *)
(* payments).  Every coroutine is a process whose position (pc) advances   *)
(* by one step per awaited store or provider operation, so that steps of   *)
(* concurrent coroutines interleave exactly at the await points.           *)
(***************************************************************************)
EXTENDS Integers, FiniteSets, Sequences, TLC

VARIABLES users, usage, payments, calls, hooks, credits,
          req, graph, tasks, dq, calc, intents, amt, convs, uctx

vars == <<users, usage, payments, calls, hooks, credits,
         req, graph, tasks, dq, calc, intents, amt, convs, uctx>>

\* the three collections and the coroutines of the billing side
billing == <<users, usage, payments, calls, hooks, credits>>

\* one request to the orchestrator endpoint, its graph run, the advisor
\* tasks of its fan-out stage, and one call of distribute_query
orch == <<req, graph, tasks, dq>>

\* one call of calculate_cost_tenths_of_cents, the payment intents
\* created at the payment processor, and one call of
\* validate_amount_usd_and_to_cents, the conversations collection with one
\* call of get_active_conversation_or_create_one, and the current-user
\* context variable with the user_id_context blocks that are open
side == <<calc, intents, amt, convs, uctx>>

----------------------------------------------------------------------------
(* Bounds of the model *)

NumCalls == 2
NumDeliveries == 2
NumCredits == 2
MaxChunks == 2

CallIds == 1..NumCalls
DeliveryIds == 1..NumDeliveries
CreditIds == 1..NumCredits

(* Inputs *)

Accounts == {"uA"}
None == "None"
NoneInt == -1
StartBalances == {-150, -100, -99}
Amounts == {-50, 27, 90}

----------------------------------------------------------------------------
(* models/user.py *)

DefaultBalance == 1000

\* opening is the balance the document was first stored with (history only)
AbsentUser == [exists |-> FALSE, balance |-> 0, opening |-> 0]

NewUser ==
    [exists |-> TRUE, balance |-> DefaultBalance, opening |-> DefaultBalance]

\* the attributes a User document answers to
UserMethods ==
    {"get_or_create", "as_balance", "as_balance_dict",
     "async_modify_balance", "get_current_balance", "async_save"}

\* a read of self.balance followed by a write of the result
dec_read_modify_write(stored, local, amount) == local - amount

\* objects.filter(id=self.id).async_update(dec__balance_tenths_of_cents=amount)
dec__balance_tenths_of_cents(stored, local, amount) == stored - amount

----------------------------------------------------------------------------
(* Coroutines of the billing side: one record per call *)

NoResult == [text_len |-> 0, meta |-> "none", usage_in |-> NoneInt,
             usage_out |-> NoneInt]

IdleCall ==
    [pc |-> "idle", kind |-> "none", uid |-> None, ret |-> "none",
     local |-> 0, amount |-> 0, debited |-> 0, outcome |-> "none",
     model |-> None, request_id |-> NoneInt, input_len |-> 0,
     result |-> NoResult, got_result |-> FALSE, returned |-> NoResult,
     input_tokens |-> 0, output_tokens |-> 0, exc |-> "none",
     checked |-> FALSE, seen |-> 0, passed |-> FALSE,
     provider_calls |-> 0, provider_exc |-> "none", chunks |-> 0]

SetCall(c, r) == calls' = [calls EXCEPT ![c] = r]

\* the coroutine returns or raises; the User object loaded by
\* check_user_balance, process_billing or log_failed_usage is a local of
\* that function and is dropped with the other locals, while a caller of
\* async_modify_balance keeps its refreshed document; the token counts
\* are kept for the BillingInfo of a call that returns
Finish(r, outcome) ==
    IF r.kind = "modify"
    THEN [r EXCEPT !.pc = "done", !.outcome = outcome]
    ELSE IF r.kind = "process_billing" /\ outcome # "returned"
    THEN [IdleCall EXCEPT !.pc = "done", !.outcome = outcome,
                          !.kind = r.kind, !.uid = r.uid,
                          !.request_id = r.request_id,
                          !.debited = r.debited]
    ELSE [r EXCEPT !.pc = "done", !.outcome = outcome, !.local = 0,
                   !.ret = "none", !.exc = "none", !.amount = 0,
                   !.input_tokens =
                       IF outcome \in {"returned", "drained"} THEN @ ELSE 0,
                   !.output_tokens =
                       IF outcome \in {"returned", "drained"} THEN @ ELSE 0]

InProxy(r) == r.kind \in {"ainvoke", "astream"}

\* an Exception raised inside the try block of ainvoke / astream goes to
\* log_failed_usage; raised anywhere else it reaches the caller
Raise(r, exc) ==
    IF InProxy(r) /\ r.passed /\ r.ret # "log_failed"
    THEN [r EXCEPT !.pc = "goc_get", !.ret = "log_failed", !.exc = exc]
    ELSE Finish(r, exc)

\* User.get_or_create, first await: objects.async_get(user_id=user_id)
GocGet(c) ==
    /\ calls[c].pc = "goc_get"
    /\ LET r == calls[c]
           u == users[r.uid]
       IN  IF u.exists
           THEN SetCall(c, [r EXCEPT !.pc = r.ret,
                                     !.local = IF r.ret \in {"check", "dec"}
                                               THEN u.balance ELSE 0])
           ELSE SetCall(c, [r EXCEPT !.pc = "goc_save"])
    /\ UNCHANGED <<users, usage, payments, hooks, credits>>
    /\ UNCHANGED orch
    /\ UNCHANGED side

\* User.get_or_create, second await: cls(user_id=user_id).async_save();
\* the unique index on user_id rejects the insert when the account was
\* created in between
GocSave(c) ==
    /\ calls[c].pc = "goc_save"
    /\ LET r == calls[c]
       IN  IF users[r.uid].exists
           THEN /\ SetCall(c, Raise(r, "NotUniqueError"))
                /\ UNCHANGED users
           ELSE /\ users' = [users EXCEPT ![r.uid] = NewUser]
                /\ SetCall(c, [r EXCEPT !.pc = r.ret,
                                        !.local =
                                            IF r.ret \in {"check", "dec"}
                                            THEN DefaultBalance ELSE 0])
    /\ UNCHANGED <<usage, payments, hooks, credits>>
    /\ UNCHANGED orch
    /\ UNCHANGED side

\* a caller of User.get_or_create(uid) followed by
\* user.async_modify_balance(amount)
StartModify(c) ==
    /\ calls[c].pc = "idle"
    /\ \E uid \in Accounts, amount \in Amounts :
          SetCall(c, [IdleCall EXCEPT !.pc = "goc_get", !.kind = "modify",
                                      !.uid = uid, !.ret = "dec",
                                      !.amount = amount])
    /\ UNCHANGED <<users, usage, payments, hooks, credits>>
    /\ UNCHANGED orch
    /\ UNCHANGED side

\* User.async_modify_balance, first await: the atomic decrement
ModifyDec(c) ==
    /\ calls[c].pc = "dec"
    /\ LET r == calls[c]
           new == dec__balance_tenths_of_cents(users[r.uid].balance,
                                               r.local, r.amount)
       IN  /\ users' = [users EXCEPT ![r.uid].balance = new]
           /\ SetCall(c, [r EXCEPT !.pc = "reload",
                                   !.debited = r.debited + r.amount])
    /\ UNCHANGED <<usage, payments, hooks, credits>>
    /\ UNCHANGED orch
    /\ UNCHANGED side

\* User.async_modify_balance, second await: reload of the document
ModifyReload(c) ==
    /\ calls[c].pc = "reload"
    /\ LET r == calls[c]
           r1 == [r EXCEPT !.local = users[r.uid].balance]
       IN  IF r.kind = "modify"
           THEN SetCall(c, Finish(r1, "returned"))
           ELSE SetCall(c, [r EXCEPT !.pc = "save_event"])
    /\ UNCHANGED <<users, usage, payments, hooks, credits>>
    /\ UNCHANGED orch
    /\ UNCHANGED side

----------------------------------------------------------------------------
(* lib/billing/costs.py, calculator.py, token_count.py *)

\* MODEL_PRICING: input and output rate in half dollars per 1M tokens
\* (Decimal("1.5000") is 3), so that every rate is an integer
MODEL_PRICING ==
    ("gpt-4o-mini" :> [input |-> 6, output |-> 12]) @@
    ("gpt-4o" :> [input |-> 10, output |-> 30]) @@
    ("gpt-4" :> [input |-> 60, output |-> 120]) @@
    ("gpt-3.5-turbo" :> [input |-> 2, output |-> 2]) @@
    ("claude-3-5-haiku-20241022" :> [input |-> 3, output |-> 8]) @@
    ("claude-sonnet-4-20250514" :> [input |-> 6, output |-> 12]) @@
    ("claude-3-opus-20240229" :> [input |-> 30, output |-> 150])

is_model_supported(model_name) == model_name \in DOMAIN MODEL_PRICING

\* an unknown model is priced as if it were free
get_model_pricing_default(model_name) ==
    [raises |-> "none",
     pricing |-> IF model_name \in DOMAIN MODEL_PRICING
                 THEN MODEL_PRICING[model_name]
                 ELSE [input |-> 0, output |-> 0]]

\* get_model_pricing: ValueError for a model that is not in the map
get_model_pricing(model_name) ==
    IF model_name \notin DOMAIN MODEL_PRICING
    THEN [raises |-> "ValueError", pricing |-> [input |-> 0, output |-> 0]]
    ELSE [raises |-> "none", pricing |-> MODEL_PRICING[model_name]]

\* rounding=ROUND_HALF_EVEN
RoundHalfEven(num, den) ==
    LET q == num \div den
        r == num % den
    IN  IF 2 * r > den THEN q + 1
        ELSE IF 2 * r = den THEN q + (q % 2)
        ELSE q

\* Decimal.quantize(Decimal("1"), rounding=ROUND_HALF_UP) of num/den >= 0
RoundHalfUp(num, den) == (2 * num + den) \div (2 * den)

\* the markup applied twice
MultiplierTwice == 3 * 3

\* multiplier: float = 3.0, taken as Decimal(str(multiplier))
Multiplier == 3

\* tokens/1e6 * rate, summed, times the multiplier, times 1000 tenths of
\* cents per dollar, rounded half up; exact, as Decimal is
calculate_cost_tenths_of_cents(model_name, input_tokens, output_tokens) ==
    LET pricing == get_model_pricing(model_name).pricing
    IN  RoundHalfUp((input_tokens * pricing.input
                        + output_tokens * pricing.output) * Multiplier,
                    2000)

\* the arguments of a call of the calculator: the models of the map and
\* two names it lacks, and token counts that give whole, halfway and
\* other fractional costs
ModelNames == DOMAIN MODEL_PRICING \cup {"unknown-model", "gpt-5"}
TokenCounts == {0, 1, 500, 1500, 1000000}

IdleCalc ==
    [pc |-> "idle", model_name |-> None, input_tokens |-> 0,
     output_tokens |-> 0, outcome |-> "none", cost |-> NoneInt]

\* a caller calls calculate_cost_tenths_of_cents(model_name, input_tokens,
\* output_tokens) with the default multiplier
StartCost ==
    /\ calc.pc = "idle"
    /\ \E m \in ModelNames, i \in TokenCounts, o \in TokenCounts :
          calc' = [IdleCalc EXCEPT !.pc = "called", !.model_name = m,
                                   !.input_tokens = i, !.output_tokens = o]
    /\ UNCHANGED <<intents, amt, convs, uctx>>
    /\ UNCHANGED billing
    /\ UNCHANGED orch

\* the call returns the cost, or get_model_pricing raises
CalculateCost ==
    /\ calc.pc = "called"
    /\ IF get_model_pricing(calc.model_name).raises # "none"
       THEN calc' = [calc EXCEPT
                       !.pc = "done",
                       !.outcome = get_model_pricing(calc.model_name).raises]
       ELSE calc' = [calc EXCEPT
                       !.pc = "done", !.outcome = "returned",
                       !.cost = calculate_cost_tenths_of_cents(
                                   calc.model_name, calc.input_tokens,
                                   calc.output_tokens)]
    /\ UNCHANGED <<intents, amt, convs, uctx>>
    /\ UNCHANGED billing
    /\ UNCHANGED orch

\* len(content) // 4
count_tokens_heuristic(len) == len \div 4

\* usage.get(key, 0)
UsageGet(v) == IF v = NoneInt THEN 0 ELSE v

\* process_billing: provider counts when the metadata has "usage",
\* otherwise the heuristic on input and output text
BilledInputTokens(input_len, result) ==
    IF result.meta = "usage" THEN UsageGet(result.usage_in)
    ELSE count_tokens_heuristic(input_len)

\* the heuristic even when the provider has counted
BilledOutputTokensHeuristic(result) == count_tokens_heuristic(result.text_len)

BilledOutputTokens(result) ==
    IF result.meta = "usage" THEN UsageGet(result.usage_out)
    ELSE count_tokens_heuristic(result.text_len)

----------------------------------------------------------------------------
(* Inputs of the metered calls *)

\* what a provider returns: text of text_len characters and response
\* metadata that is absent, lacks "usage", or carries usage counts
Results ==
    {[text_len |-> 40, meta |-> "usage", usage_in |-> 1000,
      usage_out |-> 2000],
     [text_len |-> 4002, meta |-> "none", usage_in |-> NoneInt,
      usage_out |-> NoneInt]}

\* stream chunks: content length, length of str(chunk), metadata.  A
\* stream alternates a content chunk without usage and an empty chunk
\* carrying usage, and may end or fail after any number of them.
Chunks ==
    <<[content_len |-> 2001, repr_len |-> 2050, meta |-> "no_usage",
       usage_in |-> NoneInt, usage_out |-> NoneInt],
      [content_len |-> 0, repr_len |-> 60, meta |-> "usage",
       usage_in |-> 1000, usage_out |-> 2000]>>

ChunkAt(n) == Chunks[((n - 1) % Len(Chunks)) + 1]

\* what a direct caller of process_billing passes: also a usage entry
\* that lacks the output count
BillingResults ==
    Results \cup
    {[text_len |-> 40, meta |-> "usage", usage_in |-> 1200,
      usage_out |-> NoneInt]}

\* len of the prompt a direct caller of ainvoke, astream or process_billing
\* passes
InputLens == {4002}
ProxyModels == {"claude-3-opus-20240229"}
BillingModels == {"gpt-4", "unknown-model"}
CallerTokens == {901, 902}
ProviderExceptions == {"ProviderError", "TimeoutError"}

----------------------------------------------------------------------------
(* models/usage_event.py: unique index on (user_internal_id, request_id)   *)

UsageExists(uid, request_id) ==
    \E e \in usage : e.uid = uid /\ e.request_id = request_id

\* usage_event.async_save() inside try / except NotUniqueError
InsertUsage(e) ==
    IF UsageExists(e.uid, e.request_id) THEN usage ELSE usage \cup {e}

----------------------------------------------------------------------------
(* lib/billing/service.py *)

MinimumTenthsOfCents == -100

\* a balance equal to the minimum passes
check_at_or_above(balance, minimum) == balance >= minimum

\* check_user_balance: user.balance_tenths_of_cents > minimum
check_user_balance(balance, minimum) == balance > minimum

\* a direct caller of process_billing with its own request_id
StartProcessBilling(c) ==
    /\ calls[c].pc = "idle"
    /\ \E uid \in Accounts, model \in BillingModels, t \in CallerTokens,
          res \in BillingResults, len \in InputLens :
          SetCall(c, [IdleCall EXCEPT
                        !.pc = "goc_get", !.kind = "process_billing",
                        !.uid = uid, !.ret = "bill", !.model = model,
                        !.request_id = t, !.input_len = len,
                        !.result = res, !.got_result = TRUE])
    /\ UNCHANGED <<users, usage, payments, hooks, credits>>
    /\ UNCHANGED orch
    /\ UNCHANGED side

\* process_billing: token extraction and cost, between get_or_create and
\* the balance update; get_model_pricing raises ValueError
ComputeCost(c) ==
    /\ calls[c].pc = "bill"
    /\ LET r == calls[c]
           input_tokens == BilledInputTokens(r.input_len, r.result)
           output_tokens == BilledOutputTokens(r.result)
       IN  IF is_model_supported(r.model)
           THEN SetCall(c, [r EXCEPT
                  !.pc = "dec",
                  !.input_tokens = input_tokens,
                  !.output_tokens = output_tokens,
                  !.amount = calculate_cost_tenths_of_cents(
                                r.model, input_tokens, output_tokens)])
           ELSE SetCall(c, Raise(r, "ValueError"))
    /\ UNCHANGED <<users, usage, payments, hooks, credits>>
    /\ UNCHANGED orch
    /\ UNCHANGED side

\* process_billing: the success UsageEvent, NotUniqueError swallowed, and
\* the return to the caller
SaveUsageEvent(c) ==
    /\ calls[c].pc = "save_event"
    /\ LET r == calls[c]
           e == [uid |-> r.uid, request_id |-> r.request_id,
                 model |-> r.model, input_tokens |-> r.input_tokens,
                 output_tokens |-> r.output_tokens, cost |-> r.amount,
                 status |-> "success"]
       IN  /\ usage' = InsertUsage(e)
           /\ IF r.kind = "ainvoke"
              THEN SetCall(c, Finish([r EXCEPT !.returned = r.result],
                                     "returned"))
              ELSE IF r.kind = "astream"
                   THEN SetCall(c, Finish(r, "drained"))
                   ELSE SetCall(c, Finish(r, "returned"))
    /\ UNCHANGED <<users, payments, hooks, credits>>
    /\ UNCHANGED orch
    /\ UNCHANGED side

\* log_failed_usage after get_or_create: the failed UsageEvent with zero
\* tokens and cost, NotUniqueError swallowed; the wrapper then re-raises
SaveFailedEvent(c) ==
    /\ calls[c].pc = "log_failed"
    /\ LET r == calls[c]
           e == [uid |-> r.uid, request_id |-> r.request_id,
                 model |-> r.model, input_tokens |-> 0,
                 output_tokens |-> 0, cost |-> 0, status |-> "failed"]
       IN  /\ usage' = InsertUsage(e)
           /\ SetCall(c, Finish(r, r.exc))
    /\ UNCHANGED <<users, payments, hooks, credits>>
    /\ UNCHANGED orch
    /\ UNCHANGED side

----------------------------------------------------------------------------
(* lib/billing/billing_llm_proxy.py *)

\* str(uuid.uuid4()) drawn by call c: a value no other call draws
uuid4(c) == c

\* ainvoke / astream up to the first await: the proxy exists only for a
\* supported model; perform_pre_request_checks reads the user id from the
\* context variable and raises 401 when it is unset
ProxyCallStarted(kind, ctx, model, len) ==
    LET r == [IdleCall EXCEPT !.kind = kind, !.model = model,
                              !.input_len = len]
    IN  IF ctx = None
        THEN Finish(r, "HTTPException401")
        ELSE [r EXCEPT !.pc = "goc_get", !.uid = ctx, !.ret = "check"]

\* BillingLLMProxy(base_llm): ValueError for a model without pricing
BillingLLMProxy(model) ==
    IF is_model_supported(model) THEN "none" ELSE "ValueError"

\* a caller that holds a proxy calls ainvoke / astream on it
StartProxyCall(c, kind) ==
    /\ calls[c].pc = "idle"
    /\ \E ctx \in Accounts \cup {None},
          model \in ProxyModels, len \in InputLens :
          /\ BillingLLMProxy(model) = "none"
          /\ SetCall(c, ProxyCallStarted(kind, ctx, model, len))
    /\ UNCHANGED <<users, usage, payments, hooks, credits>>
    /\ UNCHANGED orch
    /\ UNCHANGED side

StartInvoke(c) == StartProxyCall(c, "ainvoke")

StartStream(c) == StartProxyCall(c, "astream")

\* perform_pre_request_checks after check_user_balance's get_or_create;
\* the proxy then draws request_id = str(uuid.uuid4()) and awaits the
\* provider, any other caller has its answer
PreRequestCheck(c) ==
    /\ calls[c].pc = "check"
    /\ LET r == [calls[c] EXCEPT !.checked = TRUE, !.seen = calls[c].local]
       IN  IF ~check_user_balance(r.local, MinimumTenthsOfCents)
           THEN SetCall(c, Finish(r, "PaymentRequiredError"))
           ELSE IF InProxy(r)
           THEN SetCall(c, [r EXCEPT !.pc = "provider", !.passed = TRUE,
                                     !.local = 0,
                                     !.request_id = uuid4(c)])
           ELSE SetCall(c, Finish([r EXCEPT !.passed = TRUE], "returned"))
    /\ UNCHANGED <<users, usage, payments, hooks, credits>>
    /\ UNCHANGED orch
    /\ UNCHANGED side

\* ainvoke: base_llm.ainvoke returns; output and metadata are extracted
\* and process_billing starts
ProviderReturn(c) ==
    /\ calls[c].pc = "provider"
    /\ calls[c].kind = "ainvoke"
    /\ \E res \in Results :
          SetCall(c, [calls[c] EXCEPT
                        !.pc = "goc_get", !.ret = "bill", !.result = res,
                        !.got_result = TRUE,
                        !.provider_calls = @ + 1])
    /\ UNCHANGED <<users, usage, payments, hooks, credits>>
    /\ UNCHANGED orch
    /\ UNCHANGED side

\* the provider await ends without a result: the provider has been
\* called, and the chunks collected so far are not used again
Interrupted(r) ==
    [r EXCEPT !.provider_calls = IF r.chunks = 0 THEN @ + 1 ELSE @,
              !.result = NoResult, !.chunks = 0]

\* the provider call (or the provider stream) raises an Exception
ProviderRaise(c) ==
    /\ calls[c].pc = "provider"
    /\ \E exc \in ProviderExceptions :
          SetCall(c, Raise([Interrupted(calls[c]) EXCEPT
                              !.provider_exc = exc],
                           exc))
    /\ UNCHANGED <<users, usage, payments, hooks, credits>>
    /\ UNCHANGED orch
    /\ UNCHANGED side

\* CancelledError leaves the call from the await it is suspended at
Cancelled(r) ==
    IF r.pc = "provider"
    THEN Finish(Interrupted(r), "CancelledError")
    ELSE Finish(r, "CancelledError")

\* the task running the call is cancelled while the call is suspended at
\* one of its awaits (a read or write of the store, the provider):
\* CancelledError is a BaseException, which "except Exception" does not
\* catch, so it reaches the caller from wherever the call stands; what was
\* written before stays written
Cancel(c) ==
    /\ calls[c].pc \notin {"idle", "done", "yielded"}
    /\ SetCall(c, Cancelled(calls[c]))
    /\ UNCHANGED <<users, usage, payments, hooks, credits>>
    /\ UNCHANGED orch
    /\ UNCHANGED side

\* an operation of the store raises at its await (connection lost,
\* timeout) and has no effect; inside the try block of ainvoke / astream
\* the exception goes to log_failed_usage like any other
StorePcs == {"goc_get", "goc_save", "dec", "reload", "save_event",
             "log_failed"}

StoreRaise(c) ==
    /\ calls[c].pc \in StorePcs
    /\ SetCall(c, Raise(calls[c], "StoreError"))
    /\ UNCHANGED <<users, usage, payments, hooks, credits>>
    /\ UNCHANGED orch
    /\ UNCHANGED side

\* astream: the provider yields a chunk; it is appended to output_chunks,
\* its response_metadata (when it has one) replaces the previous one, and
\* the generator suspends at "yield chunk".  _combine_stream_chunks adds
\* the content, or str(chunk) when the content is empty.
StreamChunk(c) ==
    /\ calls[c].pc = "provider"
    /\ calls[c].kind = "astream"
    /\ calls[c].chunks < MaxChunks
    /\ LET r == calls[c]
           ch == ChunkAt(r.chunks + 1)
           len == IF ch.content_len > 0 THEN ch.content_len
                  ELSE ch.repr_len
           res == IF ch.meta = "none"
                  THEN [r.result EXCEPT !.text_len = @ + len]
                  ELSE [text_len |-> r.result.text_len + len,
                        meta |-> ch.meta, usage_in |-> ch.usage_in,
                        usage_out |-> ch.usage_out]
       IN  SetCall(c, [r EXCEPT !.pc = "yielded", !.result = res,
                                !.chunks = @ + 1,
                                !.provider_calls =
                                    IF r.chunks = 0 THEN @ + 1 ELSE @])
    /\ UNCHANGED <<users, usage, payments, hooks, credits>>
    /\ UNCHANGED orch
    /\ UNCHANGED side

\* astream: the consumer asks for the next chunk
StreamResume(c) ==
    /\ calls[c].pc = "yielded"
    /\ SetCall(c, [calls[c] EXCEPT !.pc = "provider"])
    /\ UNCHANGED <<users, usage, payments, hooks, credits>>
    /\ UNCHANGED orch
    /\ UNCHANGED side

\* astream: the consumer stops iterating and the generator is closed;
\* GeneratorExit is raised at the yield and is not an Exception
StreamClose(c) ==
    /\ calls[c].pc = "yielded"
    /\ SetCall(c, Finish(Interrupted(calls[c]), "GeneratorExit"))
    /\ UNCHANGED <<users, usage, payments, hooks, credits>>
    /\ UNCHANGED orch
    /\ UNCHANGED side

\* astream: the provider stream is exhausted; chunks are combined and
\* process_billing starts
StreamEnd(c) ==
    /\ calls[c].pc = "provider"
    /\ calls[c].kind = "astream"
    /\ SetCall(c, [calls[c] EXCEPT
                     !.pc = "goc_get", !.ret = "bill", !.got_result = TRUE,
                     !.provider_calls = IF calls[c].chunks = 0 THEN @ + 1
                                        ELSE @])
    /\ UNCHANGED <<users, usage, payments, hooks, credits>>
    /\ UNCHANGED orch
    /\ UNCHANGED side

----------------------------------------------------------------------------
(* Payment processor webhook: the events the processor may deliver.  An    *)
(* event id names one event, whose type and payment intent are fixed; a    *)
(* delivery may repeat any event at any time.                              *)

Intents == {"pi_1", "pi_2"}

\* the PaymentIntent object carried by an event: metadata and amounts
IntentCatalog ==
    [pi_1 |-> [user_id |-> "uA", amount |-> 500, amount_received |-> 500,
               requested |-> "5000"],
     pi_2 |-> [user_id |-> None, amount |-> 700, amount_received |-> 700,
               requested |-> "n/a"]]

Events == {"evt_1", "evt_2", "evt_3"}

EventCatalog ==
    [evt_1 |-> [type |-> "payment_intent.succeeded", intent |-> "pi_1"],
     evt_2 |-> [type |-> "payment_intent.payment_failed", intent |-> "pi_1"],
     evt_3 |-> [type |-> "payment_intent.succeeded", intent |-> "pi_2"],
     evt_4 |-> [type |-> "payment_intent.canceled", intent |-> "pi_1"],
     evt_5 |-> [type |-> "payment_intent.created", intent |-> "pi_1"]]

\* the events that do not credit: failed, canceled, and a type that
\* stripe_webhook does not process
OtherEvents == {"evt_2", "evt_4", "evt_5"}

\* the event types stripe_webhook hands to handle_payment_failed
FailedTypes ==
    {"payment_intent.payment_failed", "payment_intent.canceled"}

\* int(requested_tenths_str) if requested_tenths_str else None, with
\* ValueError mapped to None
ParseRequested(str) ==
    IF str = "5000" THEN 5000 ELSE NoneInt

\* lib/billing/amount_validation.py
cents_to_tenths_of_cents(amount_cents) == amount_cents * 10

----------------------------------------------------------------------------
(* models/payment.py: one document per stripe_intent_id (unique index)     *)

AbsentPayment ==
    [exists |-> FALSE, id |-> None, event |-> None, uid |-> None,
     amount_cents |-> 0, status |-> "none", requested |-> NoneInt,
     credited |-> NoneInt, processed |-> FALSE]

\* the call user.async_add_balance(amount) with the method defined as the
\* increment its callers expect
async_add_balance_defined(u, amount) ==
    [ok |-> TRUE, balance |-> u.balance + amount]

\* the call user.async_add_balance(amount): attribute lookup on a User
\* document, which raises AttributeError for a name the class lacks
async_add_balance(u, amount) ==
    IF "async_add_balance" \in UserMethods
    THEN [ok |-> TRUE, balance |-> u.balance + amount]
    ELSE [ok |-> FALSE, balance |-> u.balance]

IdleHook ==
    [pc |-> "idle", event |-> None, type |-> "none", intent |-> None,
     uid |-> None, amount_cents |-> 0, requested |-> NoneInt,
     credited_tenths |-> NoneInt, status |-> "none",
     payment |-> AbsentPayment, dirty |-> {}, applied |-> 0,
     outcome |-> "none", http |-> 0]

SetHook(d, r) == hooks' = [hooks EXCEPT ![d] = r]

\* the handler returned or raised; stripe_webhook logs any Exception and
\* answers 200 in both cases
Respond(r, outcome) ==
    [r EXCEPT !.pc = "done", !.outcome = outcome, !.http = 200]

\* stripe_webhook dispatch and the synchronous head of
\* handle_payment_succeeded / handle_payment_failed; an event of any other
\* type is answered without being processed
Deliver(d, e) ==
    LET ev == EventCatalog[e]
        intent == IntentCatalog[ev.intent]
        succeeded == ev.type = "payment_intent.succeeded"
        r == [IdleHook EXCEPT
                !.event = e, !.type = ev.type, !.intent = ev.intent,
                !.uid = intent.user_id,
                !.amount_cents =
                    IF succeeded THEN intent.amount_received
                    ELSE intent.amount,
                !.requested = ParseRequested(intent.requested),
                !.credited_tenths =
                    IF succeeded
                    THEN cents_to_tenths_of_cents(intent.amount_received)
                    ELSE NoneInt,
                !.status = IF succeeded THEN "succeeded" ELSE "failed"]
    IN  IF ~succeeded /\ ev.type \notin FailedTypes
        THEN SetHook(d, Respond([IdleHook EXCEPT !.event = e,
                                                 !.type = ev.type,
                                                 !.intent = ev.intent],
                                "returned"))
        ELSE IF intent.user_id = None
        THEN SetHook(d, Respond(r, "returned"))
        ELSE SetHook(d, [r EXCEPT !.pc = "goc_get"])

StartDelivery(d) ==
    /\ hooks[d].pc = "idle"
    /\ \E e \in Events : Deliver(d, e)
    /\ UNCHANGED <<users, usage, payments, calls, credits>>
    /\ UNCHANGED orch
    /\ UNCHANGED side

\* a delivery of an event that does not credit
StartOtherDelivery(d) ==
    /\ hooks[d].pc = "idle"
    /\ \E e \in OtherEvents : Deliver(d, e)
    /\ UNCHANGED <<users, usage, payments, calls, credits>>
    /\ UNCHANGED orch
    /\ UNCHANGED side

\* User.get_or_create in the handler, first await
HookGocGet(d) ==
    /\ hooks[d].pc = "goc_get"
    /\ LET r == hooks[d]
       IN  IF users[r.uid].exists
           THEN SetHook(d, [r EXCEPT !.pc = "up_get"])
           ELSE SetHook(d, [r EXCEPT !.pc = "goc_save"])
    /\ UNCHANGED <<users, usage, payments, calls, credits>>
    /\ UNCHANGED orch
    /\ UNCHANGED side

\* User.get_or_create in the handler, second await
HookGocSave(d) ==
    /\ hooks[d].pc = "goc_save"
    /\ LET r == hooks[d]
       IN  IF users[r.uid].exists
           THEN /\ SetHook(d, Respond(r, "NotUniqueError"))
                /\ UNCHANGED users
           ELSE /\ users' = [users EXCEPT ![r.uid] = NewUser]
                /\ SetHook(d, [r EXCEPT !.pc = "up_get"])
    /\ UNCHANGED <<usage, payments, calls, credits>>
    /\ UNCHANGED orch
    /\ UNCHANGED side

\* the credit is tried whatever the type of the event
AfterUpsertAnyType(r, payment) ==
    LET r1 == [r EXCEPT !.payment = payment, !.dirty = {}]
    IN  IF payment.credited = r.credited_tenths
        THEN [r1 EXCEPT !.pc = "find_existing"]
        ELSE Respond(r1, "returned")

\* what the handler does with the Payment returned by upsert_from_intent
AfterUpsert(r, payment) ==
    LET r1 == [r EXCEPT !.payment = payment, !.dirty = {}]
    IN  IF r.type # "payment_intent.succeeded"
        THEN Respond(r1, "returned")
        ELSE IF payment.credited = r.credited_tenths
             THEN [r1 EXCEPT !.pc = "find_existing"]
             ELSE Respond(r1, "returned")

\* upsert_from_intent: objects.async_get(stripe_intent_id=...), and the
\* field assignments on the loaded document
UpsertGet(d) ==
    /\ hooks[d].pc = "up_get"
    /\ LET r == hooks[d]
           p == payments[r.intent]
           p1 == [p EXCEPT !.status = r.status]
           p2 == IF r.credited_tenths # NoneInt
                 THEN [p1 EXCEPT !.credited = r.credited_tenths]
                 ELSE p1
           dirty == (IF p.status # r.status THEN {"status"} ELSE {})
                    \cup (IF p2.credited # p.credited
                          THEN {"credited"} ELSE {})
       IN  IF p.exists
           THEN SetHook(d, [r EXCEPT !.pc = "up_save", !.payment = p2,
                                     !.dirty = dirty])
           ELSE SetHook(d, [r EXCEPT !.pc = "up_get_event"])
    /\ UNCHANGED <<users, usage, payments, calls, credits>>
    /\ UNCHANGED orch
    /\ UNCHANGED side

\* upsert_from_intent: payment.async_save() of the loaded document, which
\* writes the fields assigned a different value
UpsertSave(d) ==
    /\ hooks[d].pc = "up_save"
    /\ LET r == hooks[d]
           p == payments[r.intent]
           p1 == IF "status" \in r.dirty
                 THEN [p EXCEPT !.status = r.payment.status] ELSE p
           p2 == IF "credited" \in r.dirty
                 THEN [p1 EXCEPT !.credited = r.payment.credited] ELSE p1
       IN  /\ payments' = [payments EXCEPT ![r.intent] = p2]
           /\ SetHook(d, AfterUpsert(r, r.payment))
    /\ UNCHANGED <<users, usage, calls, credits>>
    /\ UNCHANGED orch
    /\ UNCHANGED side

\* upsert_from_intent: objects.async_get(stripe_event_id=...)
UpsertGetEvent(d) ==
    /\ hooks[d].pc = "up_get_event"
    /\ LET r == hooks[d]
           found == {i \in Intents :
                        payments[i].exists /\ payments[i].event = r.event}
       IN  IF found # {}
           THEN SetHook(d, AfterUpsert(r, payments[CHOOSE i \in found : TRUE]))
           ELSE SetHook(d, [r EXCEPT !.pc = "up_insert"])
    /\ UNCHANGED <<users, usage, payments, calls, credits>>
    /\ UNCHANGED orch
    /\ UNCHANGED side

\* upsert_from_intent: async_save() of the new document; the unique
\* indexes on stripe_intent_id and stripe_event_id reject a duplicate
UpsertInsert(d) ==
    /\ hooks[d].pc = "up_insert"
    /\ LET r == hooks[d]
           new == [exists |-> TRUE, id |-> r.intent, event |-> r.event,
                   uid |-> r.uid, amount_cents |-> r.amount_cents,
                   status |-> r.status, requested |-> r.requested,
                   credited |-> r.credited_tenths, processed |-> FALSE]
           clash == \E i \in Intents :
                        /\ payments[i].exists
                        /\ (i = r.intent \/ payments[i].event = r.event)
       IN  IF clash
           THEN /\ SetHook(d, Respond(r, "NotUniqueError"))
                /\ UNCHANGED payments
           ELSE /\ payments' = [payments EXCEPT ![r.intent] = new]
                /\ SetHook(d, AfterUpsert(r, new))
    /\ UNCHANGED <<users, usage, calls, credits>>
    /\ UNCHANGED orch
    /\ UNCHANGED side

\* handle_payment_succeeded: objects.async_get(stripe_intent_id=...,
\* status="succeeded"), then the credit of the balance
FindExistingAndCredit(d) ==
    /\ hooks[d].pc = "find_existing"
    /\ LET r == hooks[d]
           p == payments[r.intent]
           found == p.exists /\ p.status = "succeeded"
           res == async_add_balance(users[r.uid], r.credited_tenths)
       IN  IF found /\ p.id # r.payment.id
           THEN /\ SetHook(d, Respond(r, "returned"))
                /\ UNCHANGED users
           ELSE IF res.ok
                THEN /\ users' = [users EXCEPT ![r.uid].balance = res.balance]
                     /\ SetHook(d, Respond([r EXCEPT !.applied =
                                                r.credited_tenths],
                                           "returned"))
                ELSE /\ SetHook(d, Respond(r, "AttributeError"))
                     /\ UNCHANGED users
    /\ UNCHANGED <<usage, payments, calls, credits>>
    /\ UNCHANGED orch
    /\ UNCHANGED side

----------------------------------------------------------------------------
(* resources/payments.py: create_payment_intent *)

MaxIntents == 1

\* a float and the Decimal made of its str(): a finite positive value of
\* milli x 10^exp thousandths of a dollar (milli below 10^9), NaN, an
\* infinity, or a value whose str() Decimal does not parse
Finite(milli) == [kind |-> "finite", milli |-> milli, exp |-> 0]
Large(milli) == [kind |-> "finite", milli |-> milli, exp |-> 26]
NaN == [kind |-> "NaN", milli |-> 0, exp |-> 0]
Infinity == [kind |-> "Infinity", milli |-> 0, exp |-> 0]
MinusInfinity == [kind |-> "-Infinity", milli |-> 0, exp |-> 0]
Unparsable == [kind |-> "unparsable", milli |-> 0, exp |-> 0]

\* a > b for two finite positive Decimals
Greater(a, b) ==
    a.exp > b.exp \/ (a.exp = b.exp /\ a.milli > b.milli)

\* config.payments_min_topup_usd = 1.0 and payments_max_topup_usd = 500.0,
\* in thousandths of a dollar
payments_min_topup_usd == 1000
payments_max_topup_usd == 500000

\* Decimal.is_finite()
is_finite(d) == d.kind = "finite"

\* the cents are cut off, not rounded
quantize_down(milli) == milli \div 10

\* int((amount_decimal * Decimal("100")).quantize(Decimal("1"))): the
\* rounding of the default context, half to even
quantize(milli) ==
    LET q == milli \div 10
        r == milli % 10
    IN  IF r > 5 THEN q + 1
        ELSE IF r < 5 THEN q
        ELSE IF q % 2 = 0 THEN q ELSE q + 1

RECURSIVE NumDigits(_)
\* the number of decimal digits of n >= 0
NumDigits(n) == IF n < 10 THEN 1 ELSE 1 + NumDigits(n \div 10)

\* getcontext().prec: quantize raises InvalidOperation when its result
\* has more digits
ContextPrecision == 28

\* the cents of the amount have no more digits than the context allows
cents_within_precision(amount_decimal) ==
    NumDigits(quantize(amount_decimal.milli)) + amount_decimal.exp
        <= ContextPrecision

\* the result is cents x 10^exp
ValidationError ==
    [raises |-> "ValidationError", cents |-> NoneInt, exp |-> 0]

\* validate_amount_usd_and_to_cents(amount_usd, min_usd, max_usd): the
\* three values are parsed, checked for finiteness, min against max, the
\* amount against both, and the amount is converted to cents
validate_amount_usd_and_to_cents(amount_usd, min_usd, max_usd) ==
    IF amount_usd = Unparsable \/ min_usd = Unparsable
          \/ max_usd = Unparsable
    THEN ValidationError
    ELSE IF ~is_finite(amount_usd) \/ ~is_finite(min_usd)
               \/ ~is_finite(max_usd)
    THEN ValidationError
    ELSE IF Greater(min_usd, max_usd)
    THEN ValidationError
    ELSE IF Greater(min_usd, amount_usd)
    THEN ValidationError
    ELSE IF Greater(amount_usd, max_usd)
    THEN ValidationError
    ELSE IF ~cents_within_precision(amount_usd)
    THEN ValidationError
    ELSE [raises |-> "none", cents |-> quantize(amount_usd.milli),
          exp |-> amount_usd.exp]

\* the arguments of a call of the validation: amounts at, next to and
\* between the limits, halfway between two cents, 1e25 and 1e26 dollars,
\* and values that are no finite number
AmountValues ==
    {Finite(995), Finite(1000), Finite(1004), Finite(1005), Finite(1015),
     Finite(1016), Finite(500000), Finite(500001), Large(100), Large(1000),
     NaN, Infinity, MinusInfinity, Unparsable}
MinValues ==
    {Finite(1000), Finite(1005), Finite(600000), NaN, MinusInfinity}
MaxValues ==
    {Finite(500000), Finite(1005), Large(1000), NaN, Infinity, Unparsable}

IdleAmount ==
    [pc |-> "idle", amount_usd |-> Finite(0), min_usd |-> Finite(0),
     max_usd |-> Finite(0), raises |-> "none", cents |-> NoneInt,
     exp |-> 0]

\* a caller calls validate_amount_usd_and_to_cents
StartValidate ==
    /\ amt.pc = "idle"
    /\ \E a \in AmountValues, lo \in MinValues, hi \in MaxValues :
          amt' = [IdleAmount EXCEPT !.pc = "called", !.amount_usd = a,
                                    !.min_usd = lo, !.max_usd = hi]
    /\ UNCHANGED <<calc, intents, convs, uctx>>
    /\ UNCHANGED billing
    /\ UNCHANGED orch

\* the call returns the cents or raises ValidationError
ValidateAmount ==
    /\ amt.pc = "called"
    /\ LET result == validate_amount_usd_and_to_cents(
                         amt.amount_usd, amt.min_usd, amt.max_usd)
       IN  amt' = [amt EXCEPT !.pc = "done", !.raises = result.raises,
                              !.cents = result.cents,
                              !.exp = result.exp]
    /\ UNCHANGED <<calc, intents, convs, uctx>>
    /\ UNCHANGED billing
    /\ UNCHANGED orch

\* the amounts asked for at the endpoint (amount_usd: float, gt=0): below
\* the minimum, allowed and halfway between two cents, and infinite
TopUpAmounts == {Finite(500), Finite(5005), Infinity}

\* POST /payments/create-payment-intent by an authenticated user: the
\* amount is validated and the PaymentIntent created at the processor,
\* with the user and the requested tenths of cents as metadata; no
\* collection is read or written.  ValidationError is answered with 400,
\* an error of the processor with 500
CreatePaymentIntent ==
    /\ Cardinality(intents) < MaxIntents
    /\ \E uid \in Accounts, amount_usd \in TopUpAmounts :
          LET result == validate_amount_usd_and_to_cents(
                            amount_usd, Finite(payments_min_topup_usd),
                            Finite(payments_max_topup_usd))
              call == [n |-> Cardinality(intents) + 1, user_id |-> uid,
                       amount_usd |-> amount_usd]
          IN  IF result.raises # "none"
              THEN intents' = intents \cup
                       {call @@ [http |-> 400, intent_id |-> None,
                                 amount_cents |-> NoneInt,
                                 requested |-> NoneInt]}
              ELSE \/ intents' = intents \cup
                          {call @@
                           [http |-> 201, intent_id |-> "pi_new",
                            amount_cents |-> result.cents,
                            requested |->
                               cents_to_tenths_of_cents(result.cents)]}
                   \/ intents' = intents \cup
                          {call @@ [http |-> 500, intent_id |-> None,
                                    amount_cents |-> NoneInt,
                                    requested |-> NoneInt]}
    /\ UNCHANGED <<calc, amt, convs, uctx>>
    /\ UNCHANGED billing
    /\ UNCHANGED orch

----------------------------------------------------------------------------
(* Payment.credit_if_not_processed *)

IdleCredit ==
    [pc |-> "idle", intent |-> None, uid |-> None, amount |-> 0,
     unclaimed |-> FALSE, won |-> FALSE, applied |-> 0, outcome |-> "none"]

\* a caller of Payment.credit_if_not_processed(stripe_intent_id, user,
\* credited_tenths_of_cents); unclaimed records whether the document was
\* succeeded and unprocessed when the call was made
StartCredit(k) ==
    /\ credits[k].pc = "idle"
    /\ \E i \in Intents :
        /\ IntentCatalog[i].user_id # None
        /\ users[IntentCatalog[i].user_id].exists
        /\ credits' = [credits EXCEPT ![k] =
              [IdleCredit EXCEPT
                 !.pc = "claim", !.intent = i,
                 !.uid = IntentCatalog[i].user_id,
                 !.amount =
                    cents_to_tenths_of_cents(IntentCatalog[i].amount_received),
                 !.unclaimed = /\ payments[i].exists
                               /\ payments[i].status = "succeeded"
                               /\ ~payments[i].processed]]
    /\ UNCHANGED <<users, usage, payments, calls, hooks>>
    /\ UNCHANGED orch
    /\ UNCHANGED side

\* the conditional update filter(stripe_intent_id, status="succeeded",
\* processed=False).async_update(set__processed=True, ...), then the
\* credit of the balance by the caller whose update matched
CreditClaim(k) ==
    /\ credits[k].pc = "claim"
    /\ LET r == credits[k]
           p == payments[r.intent]
           updated_count ==
               IF p.exists /\ p.status = "succeeded" /\ ~p.processed
               THEN 1 ELSE 0
           res == async_add_balance(users[r.uid], r.amount)
       IN  IF updated_count = 0
           THEN /\ credits' = [credits EXCEPT ![k] =
                      [r EXCEPT !.pc = "done", !.outcome = "False"]]
                /\ UNCHANGED <<users, payments>>
           ELSE /\ payments' = [payments EXCEPT ![r.intent] =
                      [p EXCEPT !.processed = TRUE, !.credited = r.amount]]
                /\ IF res.ok
                   THEN /\ users' = [users EXCEPT
                                        ![r.uid].balance = res.balance]
                        /\ credits' = [credits EXCEPT ![k] =
                              [r EXCEPT !.pc = "done", !.won = TRUE,
                                        !.applied = r.amount,
                                        !.outcome = "True"]]
                   ELSE /\ UNCHANGED users
                        /\ credits' = [credits EXCEPT ![k] =
                              [r EXCEPT !.pc = "done", !.won = TRUE,
                                        !.outcome = "AttributeError"]]
    /\ UNCHANGED <<usage, calls, hooks>>
    /\ UNCHANGED orch
    /\ UNCHANGED side

----------------------------------------------------------------------------
(* orchestrator/states.py: SageSpec, SageResponse, OrchestratorState *)

MaxSages == 2

PredefinedKeys == {"marcus_aurelius", "nassim_taleb"}
SageNames == PredefinedKeys \cup {"Growth Coach"}

\* SageSpec(source=..., key=..., name=..., description=...); the
\* description plays no part, and no field is required to be unique
SageSpec(source, key, name) ==
    [source |-> source, key |-> key, name |-> name]

\* the specs a caller builds: a predefined sage is named by its key, a
\* dynamic sage has the name its author gave it, which can be the name of
\* another spec
SageSpecs ==
    {SageSpec("predefined", k, k) : k \in PredefinedKeys}
        \cup {SageSpec("dynamic", None, n) :
                 n \in {"Growth Coach", "marcus_aurelius"}}

\* an element of sages_to_run that is not a SageSpec: a plain dict, which
\* has no attribute name
PlainDict == [source |-> "dict", key |-> None, name |-> None]

hasattr_name(sage_spec) == sage_spec.source \in {"predefined", "dynamic"}

\* SageResponse(answer=..., summary=...); texts are tuples of their parts
SageResponse(answer, summary) == [answer |-> answer, summary |-> summary]

\* state.get(key, default) of a TypedDict that may lack the key
StateGet(state, key, default) ==
    IF key \in DOMAIN state THEN state[key] ELSE default

\* a str is true unless it is empty; None is false
Truthy(v) == v # None /\ v # ""

\* a dict keeps its keys in insertion order: a sequence of (key, value)
DictKeys(d) == [i \in 1..Len(d) |-> d[i].key]

\* d[k] = v: a present key keeps its place, a new key goes last
DictSet(d, k, v) ==
    IF \E i \in 1..Len(d) : d[i].key = k
    THEN [i \in 1..Len(d) |->
            IF d[i].key = k THEN [key |-> k, value |-> v] ELSE d[i]]
    ELSE Append(d, [key |-> k, value |-> v])

DictGet(d, k) == d[CHOOSE i \in 1..Len(d) : d[i].key = k].value

----------------------------------------------------------------------------
(* The graph run: OrchestratorState, the nodes of the compiled graph *)

Nodes == {"sage_selection", "clean_user_input", "parallel_sages",
          "consolidation"}

\* caught is the exception a node caught and did not raise again, runs
\* the number of times the node was entered in the run
IdleNode ==
    [status |-> "idle", exc |-> "none", caught |-> "none", runs |-> 0]

IdleGraph ==
    [status |-> "idle", step |-> 0, exc |-> "none",
     current_user_id_var |-> None,
     state |-> [user_query |-> "q"],
     nodes |-> [n \in Nodes |-> IdleNode],
     writes |-> [n \in Nodes |-> <<>>],
     completed |-> <<>>]

\* the node returns its partial state, or raises
NodeReturn(n, out) ==
    graph' = [graph EXCEPT !.nodes[n].status = "returned",
                           !.writes[n] = out]

NodeRaise(n, exc) ==
    graph' = [graph EXCEPT !.nodes[n].status = "raised",
                           !.nodes[n].exc = exc]

\* the node is entered and returns its partial state in one step
NodeRun(n, out) ==
    graph' = [graph EXCEPT !.nodes[n].status = "returned",
                           !.nodes[n].runs = @ + 1,
                           !.writes[n] = out]

----------------------------------------------------------------------------
(* orchestrator/graph_definition.py: limit_sages_to_run *)

DefaultMaxSagesToRun == 5

Min(a, b) == IF a < b THEN a ELSE b

\* the override in the state is not read
limit_sages_to_run_default(sages_to_run, state) ==
    SubSeq(sages_to_run, 1, Min(DefaultMaxSagesToRun, Len(sages_to_run)))

\* state.get("max_sages_to_run", 5); a positive int truncates with
\* sages_to_run[:max_sages_to_run], anything else leaves the list as it is
limit_sages_to_run(sages_to_run, state) ==
    LET max_sages_to_run ==
            StateGet(state, "max_sages_to_run", DefaultMaxSagesToRun)
    IN  IF max_sages_to_run > 0
        THEN SubSeq(sages_to_run, 1, Min(max_sages_to_run, Len(sages_to_run)))
        ELSE sages_to_run

----------------------------------------------------------------------------
(* orchestrator/graph_definition.py: parallel_sages_node *)

\* what a task can raise: the provider fails or times out inside the
\* metered call, or the pre-flight balance check of the metered call fails
TaskExceptions == {"ProviderError", "PaymentRequiredError"}

\* execute_sage_spec(sage_spec, user_query, chat_history) returns the
\* SageResponse of the advisor
RealResult(sage_spec, user_query) ==
    [kind |-> "result",
     value |-> SageResponse(<<"wisdom of", sage_spec.name, user_query>>,
                            <<"summary of", sage_spec.name>>)]

\* an Exception e raised by the task; str(e) is its text
ExceptionResult(exc) == [kind |-> "exception", value |-> [exc |-> exc]]

NoTaskResult == [kind |-> "none", value |-> [exc |-> None]]

\* asyncio.gather(*tasks, return_exceptions=True): the results, exceptions
\* included, in the order of the awaitables passed
gather(ts, completed) == [i \in 1..Len(ts) |-> ts[i].result]

\* an Exception among the results becomes a structured error response
TaskEntry(result) ==
    IF result.kind = "exception"
    THEN SageResponse(<<"Error: ", result.value.exc>>,
                      <<"Error invoking sage.">>)
    ELSE result.value

\* for i, result in enumerate(results): sage_responses[sage_names[i]] = ...
RECURSIVE ProcessResults(_, _, _)
ProcessResults(results, sage_names, i) ==
    IF i = 0 THEN <<>>
    ELSE DictSet(ProcessResults(results, sage_names, i - 1),
                 sage_names[i], TaskEntry(results[i]))

\* the node is entered: the list is limited, the query chosen, one
\* coroutine is made and one name read per spec; gather then schedules
\* every coroutine at once
ParallelSagesStart ==
    /\ graph.nodes["parallel_sages"].status = "scheduled"
    /\ LET state == graph.state
           sages_to_run ==
               limit_sages_to_run(StateGet(state, "sages_to_run", <<>>),
                                  state)
           cleaned == StateGet(state, "cleaned_user_query", None)
           user_query == IF Truthy(cleaned) THEN cleaned
                         ELSE state.user_query
       IN  IF \A i \in 1..Len(sages_to_run) : hasattr_name(sages_to_run[i])
           THEN /\ tasks' = [i \in 1..Len(sages_to_run) |->
                               [spec |-> sages_to_run[i],
                                user_query |-> user_query,
                                pc |-> "running",
                                result |-> NoTaskResult]]
                /\ graph' = [graph EXCEPT
                               !.nodes["parallel_sages"].status = "running",
                               !.nodes["parallel_sages"].runs = @ + 1]
           ELSE /\ graph' = [graph EXCEPT
                               !.nodes["parallel_sages"].status = "raised",
                               !.nodes["parallel_sages"].exc =
                                   "AttributeError",
                               !.nodes["parallel_sages"].runs = @ + 1]
                /\ UNCHANGED tasks
    /\ UNCHANGED <<req, dq>>
    /\ UNCHANGED billing
    /\ UNCHANGED side

\* execute_sage_spec of task i returns
TaskReturn(i) ==
    /\ i \in DOMAIN tasks
    /\ tasks[i].pc = "running"
    /\ tasks' = [tasks EXCEPT
                    ![i].pc = "done",
                    ![i].result = RealResult(tasks[i].spec,
                                             tasks[i].user_query)]
    /\ graph' = [graph EXCEPT !.completed = Append(@, i)]
    /\ UNCHANGED <<req, dq>>
    /\ UNCHANGED billing
    /\ UNCHANGED side

\* execute_sage_spec of task i raises
TaskRaise(i) ==
    /\ i \in DOMAIN tasks
    /\ tasks[i].pc = "running"
    /\ \E exc \in TaskExceptions :
          tasks' = [tasks EXCEPT ![i].pc = "done",
                                 ![i].result = ExceptionResult(exc)]
    /\ graph' = [graph EXCEPT !.completed = Append(@, i)]
    /\ UNCHANGED <<req, dq>>
    /\ UNCHANGED billing
    /\ UNCHANGED side

\* gather resumes the node once every task is done; the except branch of
\* the node is not reached, since gather hands every Exception of a task
\* over as a result
ParallelSagesJoin ==
    /\ graph.nodes["parallel_sages"].status = "running"
    /\ \A i \in DOMAIN tasks : tasks[i].pc = "done"
    /\ LET results == gather(tasks, graph.completed)
           sage_names == [i \in 1..Len(tasks) |-> tasks[i].spec.name]
           sage_responses ==
               ProcessResults(results, sage_names, Len(results))
       IN  NodeReturn("parallel_sages",
                      [agent_responses |-> sage_responses])
    /\ UNCHANGED <<req, tasks, dq>>
    /\ UNCHANGED billing
    /\ UNCHANGED side

\* state["sages_to_run"]: any list of up to MaxSages elements, a spec
\* repeated and an element that is not a SageSpec included
ListElements == SageSpecs \cup {PlainDict}

SagesToRunLists == UNION {[1..n -> ListElements] : n \in 0..MaxSages}

WellFormed(sages_to_run) ==
    \A i \in DOMAIN sages_to_run : hasattr_name(sages_to_run[i])

\* the lists a caller runs after the cleaner
CleanedRunLists ==
    {<<SageSpec("predefined", "nassim_taleb", "nassim_taleb")>>,
     <<SageSpec("predefined", "marcus_aurelius", "marcus_aurelius"),
       SageSpec("dynamic", None, "Growth Coach")>>}

MaxSagesToRunValues == (-1)..MaxSages

\* parallel_sages_node called on a state of the caller's choice
StartFanOut ==
    /\ graph.status = "idle"
    /\ \E s \in SagesToRunLists, cleaned \in {None, "", "q cleaned"} :
          \E state \in
                {[user_query |-> "q", cleaned_user_query |-> cleaned,
                  sages_to_run |-> s]}
                \cup {[user_query |-> "q", cleaned_user_query |-> cleaned,
                       sages_to_run |-> s, max_sages_to_run |-> m] :
                         m \in MaxSagesToRunValues} :
             graph' = [graph EXCEPT
                         !.status = "node",
                         !.state = state,
                         !.nodes["parallel_sages"].status = "scheduled"]
    /\ UNCHANGED <<req, tasks, dq>>
    /\ UNCHANGED billing
    /\ UNCHANGED side

----------------------------------------------------------------------------
(* orchestrator/graph_definition.py: the compiled graph *)

START == "__start__"
END == "__end__"

\* builder.add_edge(...)
Edges ==
    {<<START, "sage_selection">>,
     <<START, "clean_user_input">>,
     <<"sage_selection", "parallel_sages">>,
     <<"clean_user_input", "parallel_sages">>,
     <<"parallel_sages", "consolidation">>,
     <<"consolidation", END>>}

\* the nodes an edge leads to from one of the nodes ns
Successors(ns) == {e[2] : e \in {d \in Edges : d[1] \in ns}} \ {END}

RecursionLimit == 10

\* final_response before the consolidation has written it
NoText == [none |-> TRUE]

\* build_orchestrator_state(query, user_id, conversation.id, chat_history,
\* turn_id); messages, chat_history and turn_id play no part
build_orchestrator_state(query, user_id, conversation_id) ==
    [user_query |-> query, user_id |-> user_id,
     conversation_id |-> conversation_id,
     sages_to_run |-> <<>>, agent_queries |-> <<>>,
     agent_responses |-> <<>>, moderator_responses |-> <<>>,
     final_response |-> NoText,
     max_sages_to_run |-> DefaultMaxSagesToRun,
     cleaned_user_query |-> None]

\* the call record of the call a request, a node or the moderator awaits
NodeCall == CHOOSE c \in CallIds : \A d \in CallIds : c <= d

\* orchestrator_graph.ainvoke(state, {"recursion_limit": 10}) on a state
\* made by build_orchestrator_state: the first step holds the nodes START
\* leads to.  The caller may run inside user_id_context(user_id) or leave
\* the context variable at its default
StartGraph ==
    /\ graph.status = "idle"
    /\ \E uid \in Accounts :
       \E context \in {None, uid} :
          graph' = [graph EXCEPT
                !.status = "running", !.step = 1,
                !.current_user_id_var = context,
                !.state = build_orchestrator_state("q", uid, "CONV_1"),
                !.nodes = [n \in Nodes |->
                    IF n \in Successors({START})
                    THEN [IdleNode EXCEPT !.status = "scheduled"]
                    ELSE IdleNode]]
    /\ UNCHANGED <<req, tasks, dq>>
    /\ UNCHANGED billing
    /\ UNCHANGED side

\* a node raised: the nodes of the step that have not returned are
\* cancelled, the metered call one of them awaits with them, and the
\* exception leaves the graph
NodeFailed ==
    /\ graph.status = "running"
    /\ \E n \in Nodes :
          /\ graph.nodes[n].status = "raised"
          /\ graph' = [graph EXCEPT
                !.status = "raised",
                !.exc = graph.nodes[n].exc,
                !.nodes = [m \in Nodes |->
                    IF graph.nodes[m].status \in {"scheduled", "running"}
                    THEN [graph.nodes[m] EXCEPT !.status = "cancelled"]
                    ELSE graph.nodes[m]]]
    /\ IF /\ graph.nodes["clean_user_input"].status = "running"
          /\ calls[NodeCall].pc \notin {"idle", "done"}
       THEN SetCall(NodeCall, Cancelled(calls[NodeCall]))
       ELSE UNCHANGED calls
    /\ UNCHANGED <<users, usage, payments, hooks, credits>>
    /\ UNCHANGED <<req, tasks, dq>>
    /\ UNCHANGED side

----------------------------------------------------------------------------
(* orchestrator/prompt_modules, ResponseModerator.__init__ *)

\* QUERY_DISTRIBUTION_PROMPT.model, RESPONSE_CONSOLIDATION_PROMPT.model,
\* USER_INPUT_CLEANER_PROMPT.model
QueryDistributionModel == "claude-3-5-haiku-20241022"
ResponseConsolidationModel == "claude-haiku-4-5-20251001"
UserInputCleanerModel == "claude-3-5-haiku-20241022"

\* ResponseModerator(): a BillingLLMProxy is made for the distribution
\* model, then one for the consolidation model; the ValueError of either
\* leaves the constructor
ResponseModerator ==
    IF BillingLLMProxy(QueryDistributionModel) # "none"
    THEN BillingLLMProxy(QueryDistributionModel)
    ELSE BillingLLMProxy(ResponseConsolidationModel)

\* the methods class ResponseModerator defines
ModeratorMethods == {"distribute_query", "consolidate_responses"}

----------------------------------------------------------------------------
(* sage_selection_node *)

\* moderator = ResponseModerator() raises; with a moderator the node
\* would call moderator.select_sages, which the class does not define
SageSelectionStart ==
    /\ graph.status = "running"
    /\ graph.nodes["sage_selection"].status = "scheduled"
    /\ LET exc == IF ResponseModerator # "none" THEN ResponseModerator
                  ELSE IF "select_sages" \notin ModeratorMethods
                  THEN "AttributeError"
                  ELSE "none"
       IN  graph' = [graph EXCEPT
                        !.nodes["sage_selection"].status =
                            IF exc = "none" THEN "running" ELSE "raised",
                        !.nodes["sage_selection"].exc = exc,
                        !.nodes["sage_selection"].runs = @ + 1]
    /\ UNCHANGED <<req, tasks, dq>>
    /\ UNCHANGED billing
    /\ UNCHANGED side

----------------------------------------------------------------------------
(* clean_user_input_node *)

\* get_current_user_id(): the context variable of the caller
get_current_user_id == graph.current_user_id_var

\* str(response.content).strip().rstrip('"') of an answer: a cleaned
\* question, or nothing
CleanerContents == {"q cleaned", ""}

\* the except branch returns an empty query
clean_user_input_closed(user_query, outcome, cleaned) ==
    IF outcome = "returned"
    THEN (IF cleaned # "" THEN cleaned ELSE user_query)
    ELSE ""

\* cleaned if cleaned else user_query; in the except branch user_query
clean_user_input(user_query, outcome, cleaned) ==
    IF outcome = "returned" /\ cleaned # "" THEN cleaned ELSE user_query

\* clean_user_input_node called on a state of the caller's choice, inside
\* user_id_context(user_id) or outside
StartCleaner ==
    /\ graph.status = "idle"
    /\ \E context \in Accounts \cup {None} :
          graph' = [graph EXCEPT
                      !.status = "node",
                      !.current_user_id_var = context,
                      !.state = [user_query |-> "q"],
                      !.nodes["clean_user_input"].status = "scheduled"]
    /\ UNCHANGED <<req, tasks, dq>>
    /\ UNCHANGED billing
    /\ UNCHANGED side

\* len(USER_INPUT_CLEANER_PROMPT.template.format(user_query="")): the
\* template without its placeholder, the doubled braces written once
UserInputCleanerTemplateLen == 1160

\* len(formatted_prompt) of clean_user_input_node
CleanerPromptLen(user_query) == UserInputCleanerTemplateLen + Len(user_query)

\* the node is entered: the proxy is made outside the try, llm.ainvoke
\* runs up to its first await inside it, with the formatted prompt
CleanUserInputStart ==
    /\ graph.status \in {"running", "node"}
    /\ graph.nodes["clean_user_input"].status = "scheduled"
    /\ calls[NodeCall].pc = "idle"
    /\ IF BillingLLMProxy(UserInputCleanerModel) # "none"
       THEN /\ graph' = [graph EXCEPT
                  !.nodes["clean_user_input"].status = "raised",
                  !.nodes["clean_user_input"].exc =
                      BillingLLMProxy(UserInputCleanerModel),
                  !.nodes["clean_user_input"].runs = @ + 1]
            /\ UNCHANGED calls
       ELSE /\ graph' = [graph EXCEPT
                  !.nodes["clean_user_input"].status = "running",
                  !.nodes["clean_user_input"].runs = @ + 1]
            /\ SetCall(NodeCall,
                       ProxyCallStarted(
                           "ainvoke", get_current_user_id,
                           UserInputCleanerModel,
                           CleanerPromptLen(graph.state.user_query)))
    /\ UNCHANGED <<users, usage, payments, hooks, credits>>
    /\ UNCHANGED <<req, tasks, dq>>
    /\ UNCHANGED side

\* llm.ainvoke has ended: an answer gives the cleaned query, every
\* Exception is caught and the original query returned; the CancelledError
\* of a cancelled node is no Exception and leaves the node
CleanUserInputReturn ==
    /\ graph.status \in {"running", "node"}
    /\ graph.nodes["clean_user_input"].status = "running"
    /\ calls[NodeCall].pc = "done"
    /\ LET outcome == calls[NodeCall].outcome
           user_query == graph.state.user_query
       IN  IF outcome = "CancelledError"
           THEN NodeRaise("clean_user_input", outcome)
           ELSE \E cleaned \in IF outcome = "returned" THEN CleanerContents
                               ELSE {""} :
                   graph' = [graph EXCEPT
                      !.nodes["clean_user_input"].status = "returned",
                      !.nodes["clean_user_input"].caught =
                          IF outcome = "returned" THEN "none" ELSE outcome,
                      !.writes["clean_user_input"] =
                          [cleaned_user_query |->
                              clean_user_input(user_query, outcome, cleaned)]]
    /\ UNCHANGED <<req, tasks, dq>>
    /\ UNCHANGED billing
    /\ UNCHANGED side

\* the caller hands the state, updated with what clean_user_input_node
\* returned and with a list of sages, to parallel_sages_node
StartFanOutCleaned ==
    /\ graph.status = "node"
    /\ graph.nodes["clean_user_input"].status = "returned"
    /\ \E s \in CleanedRunLists :
          graph' = [graph EXCEPT
                      !.state = graph.writes["clean_user_input"]
                                @@ [sages_to_run |-> s] @@ graph.state,
                      !.nodes["clean_user_input"].status = "merged",
                      !.nodes["parallel_sages"].status = "scheduled"]
    /\ UNCHANGED <<req, tasks, dq>>
    /\ UNCHANGED billing
    /\ UNCHANGED side

----------------------------------------------------------------------------
(* consolidation_node and ResponseModerator.consolidate_responses *)

\* sage_name.upper().replace("_", " ")
upper_replace ==
    [n \in SageNames \cup {"generalist_sage", "error"} |->
        CASE n = "marcus_aurelius" -> "MARCUS AURELIUS"
          [] n = "nassim_taleb" -> "NASSIM TALEB"
          [] n = "Growth Coach" -> "GROWTH COACH"
          [] n = "generalist_sage" -> "GENERALIST SAGE"
          [] n = "error" -> "ERROR"]

RECURSIVE Sections(_)
\* one "=== LABEL ===" section per entry whose key is not "error"
Sections(agent_responses) ==
    IF agent_responses = <<>> THEN <<>>
    ELSE LET e == Head(agent_responses)
             rest == Sections(Tail(agent_responses))
         IN  IF e.key # "error"
             THEN <<[label |-> upper_replace[e.key], body |-> e.value]>>
                     \o rest
             ELSE rest

\* a text: the sections of a consolidated response, or "Error: " followed
\* by the text of an exception
Text(error, sections) == [error |-> error, sections |-> sections]

\* HumanMessage(content=f"Error consolidating responses: {str(e)}")
ErrorMessage(error) ==
    [prefix |-> "Error consolidating responses: ", error |-> error]

\* consolidate_responses(user_query, agent_queries, agent_responses) with
\* return_raw_answers left True: the sections joined by blank lines
consolidate_responses(user_query, agent_queries, agent_responses) ==
    Sections(agent_responses)

\* the parameters of consolidate_responses that have no default
RequiredParameters == <<"user_query", "agent_queries", "agent_responses">>

\* the node calls moderator.consolidate_responses(state["agent_responses"])
PositionalArguments == <<"agent_responses">>

\* the required parameters the call leaves without a value
MissingParameters(parameters, arguments) ==
    SubSeq(parameters, Len(arguments) + 1, Len(parameters))

\* the caller hands the state, updated with what parallel_sages_node
\* returned, to consolidation_node
StartConsolidation ==
    /\ graph.status = "node"
    /\ graph.nodes["parallel_sages"].status = "returned"
    /\ graph' = [graph EXCEPT
                   !.state = graph.writes["parallel_sages"] @@ graph.state,
                   !.nodes["parallel_sages"].status = "merged",
                   !.nodes["consolidation"].status = "scheduled"]
    /\ UNCHANGED <<req, tasks, dq>>
    /\ UNCHANGED billing
    /\ UNCHANGED side

\* moderator = ResponseModerator() stands before the try: its ValueError
\* leaves the node.  Inside the try the call lacks two arguments, and the
\* TypeError, as any Exception, becomes the text "Error: ..."
ConsolidationNode ==
    /\ graph.status \in {"running", "node"}
    /\ graph.nodes["consolidation"].status = "scheduled"
    /\ LET state == graph.state
           agent_responses == StateGet(state, "agent_responses", <<>>)
           moderator_responses ==
               StateGet(state, "moderator_responses", <<>>)
           missing == MissingParameters(RequiredParameters,
                                        PositionalArguments)
       IN  IF ResponseModerator # "none"
           THEN graph' = [graph EXCEPT
                   !.nodes["consolidation"].status = "raised",
                   !.nodes["consolidation"].exc = ResponseModerator,
                   !.nodes["consolidation"].runs = @ + 1]
           ELSE IF missing = <<>>
           THEN LET consolidated_response ==
                        Text("none",
                             consolidate_responses(state.user_query, <<>>,
                                                   agent_responses))
                IN  NodeRun("consolidation",
                       [messages |-> <<consolidated_response>>,
                        final_response |-> consolidated_response,
                        moderator_responses |->
                           [consolidation |->
                               [consolidated_response |->
                                   consolidated_response,
                                input_sage_count |-> Len(agent_responses),
                                sage_names |-> DictKeys(agent_responses)]]
                           @@ moderator_responses])
           ELSE NodeRun("consolidation",
                   [messages |-> <<ErrorMessage("TypeError")>>,
                    final_response |-> Text("TypeError", <<>>),
                    moderator_responses |->
                       [consolidation |->
                           [consolidated_response |->
                               Text("TypeError", <<>>),
                            error |-> "TypeError",
                            input_sage_count |-> Len(agent_responses)]]
                       @@ moderator_responses])
    /\ UNCHANGED <<req, tasks, dq>>
    /\ UNCHANGED billing
    /\ UNCHANGED side

----------------------------------------------------------------------------
(* orchestrator/moderator.py: ResponseModerator.distribute_query *)

ChatHistories == {<<>>, << <<"human", "earlier question">> >>}

\* a field of QueryDistributionOutput: None, an empty text or a query
FieldValues == {None, "", "a query"}

\* None, for a field holding an object
NoObject == [none |-> TRUE]

IdleDistribute ==
    [pc |-> "idle", user_query |-> None, chat_history |-> <<>>,
     parsed_response |-> NoObject, failure |-> "none",
     outcome |-> "none", result |-> <<>>]

\* the result dictionary with only the selected sages
SelectedSages(parsed) ==
    LET r0 == <<[key |-> "distribution_rationale",
                 value |-> parsed.distribution_rationale]>>
        r1 == IF Truthy(parsed.marcus_aurelius)
              THEN DictSet(r0, "marcus_aurelius", parsed.marcus_aurelius)
              ELSE r0
        r2 == IF Truthy(parsed.nassim_taleb)
              THEN DictSet(r1, "nassim_taleb", parsed.nassim_taleb)
              ELSE r1
    IN  IF Truthy(parsed.naval_ravikant)
        THEN DictSet(r2, "naval_ravikant", parsed.naval_ravikant)
        ELSE r2

\* the except branch: the original query goes to all three sages
FallbackDistribution(user_query, chat_history, e) ==
    LET context_note == IF chat_history # <<>>
                        THEN " (considering conversation history)"
                        ELSE ""
    IN  <<[key |-> "marcus_aurelius",
           value |-> <<"From a Stoic perspective", context_note,
                       user_query>>],
          [key |-> "nassim_taleb",
           value |-> <<"From an antifragile perspective", context_note,
                       user_query>>],
          [key |-> "naval_ravikant",
           value |-> <<"From an entrepreneurial perspective", context_note,
                       user_query>>],
          [key |-> "distribution_rationale",
           value |-> <<"Fallback distribution due to error: ", e>>]>>

\* len(QUERY_DISTRIBUTION_PROMPT.template.format(...)) with three empty
\* fields: the template without its placeholders, doubled braces once
QueryDistributionTemplateLen == 6043

\* the chat_context of a call without history
NoChatContext == "No previous conversation context."

\* chat_history[-5:]
LastExchanges(chat_history) ==
    SubSeq(chat_history,
           IF Len(chat_history) > 5 THEN Len(chat_history) - 4 ELSE 1,
           Len(chat_history))

RECURSIVE JoinedLinesLen(_)
\* len("\n".join(f"{role.upper()}: {content}" for role, content in lines))
JoinedLinesLen(lines) ==
    IF lines = <<>>
    THEN 0
    ELSE Len(lines[1][1]) + 2 + Len(lines[1][2])
           + (IF Len(lines) > 1 THEN 1 + JoinedLinesLen(Tail(lines)) ELSE 0)

\* len(chat_context); an empty history stands for None as well
ChatContextLen(chat_history) ==
    IF chat_history = <<>>
    THEN Len(NoChatContext)
    ELSE JoinedLinesLen(LastExchanges(chat_history))

\* len(distribution_parser.get_format_instructions()): the text is the
\* parser library's, a short one and a long one stand for it
FormatInstructionsLens == {6, 1206}

\* len(formatted_prompt) of distribute_query
DistributionPromptLen(user_query, chat_history, format_len) ==
    QueryDistributionTemplateLen + Len(user_query)
        + ChatContextLen(chat_history) + format_len

\* distribute_query(user_query, chat_history) of a moderator the caller
\* holds is called, inside user_id_context(user_id) or outside, and runs
\* up to the first await of distribution_llm.ainvoke with the formatted
\* prompt
StartDistribute ==
    /\ dq.pc = "idle"
    /\ calls[NodeCall].pc = "idle"
    /\ \E h \in ChatHistories, context \in Accounts \cup {None},
          format_len \in FormatInstructionsLens :
          /\ dq' = [IdleDistribute EXCEPT !.pc = "provider",
                                          !.user_query = "q",
                                          !.chat_history = h]
          /\ SetCall(NodeCall,
                     ProxyCallStarted(
                         "ainvoke", context, QueryDistributionModel,
                         DistributionPromptLen("q", h, format_len)))
    /\ UNCHANGED <<users, usage, payments, hooks, credits>>
    /\ UNCHANGED <<req, graph, tasks>>
    /\ UNCHANGED side

\* distribution_llm.ainvoke returns the answer: the content parses into a
\* QueryDistributionOutput, or the parser raises
DistributeReturn ==
    /\ dq.pc = "provider"
    /\ calls[NodeCall].pc = "done"
    /\ calls[NodeCall].outcome = "returned"
    /\ \/ \E m, t, n \in FieldValues :
             LET parsed == [marcus_aurelius |-> m, nassim_taleb |-> t,
                            naval_ravikant |-> n,
                            distribution_rationale |-> "rationale"]
             IN  dq' = [dq EXCEPT !.pc = "done", !.outcome = "returned",
                                  !.parsed_response = parsed,
                                  !.result = SelectedSages(parsed)]
       \/ dq' = [dq EXCEPT
                   !.pc = "done", !.outcome = "returned",
                   !.failure = "OutputParserException",
                   !.result = FallbackDistribution(
                                 dq.user_query, dq.chat_history,
                                 "OutputParserException")]
    /\ UNCHANGED <<req, graph, tasks>>
    /\ UNCHANGED billing
    /\ UNCHANGED side

\* distribution_llm.ainvoke raises: every Exception (401 without a user
\* in the context, the pre-flight check, the provider, the store) gives
\* the fallback with its text; a CancelledError leaves distribute_query
DistributeRaise ==
    /\ dq.pc = "provider"
    /\ calls[NodeCall].pc = "done"
    /\ calls[NodeCall].outcome # "returned"
    /\ LET e == calls[NodeCall].outcome
       IN  IF e = "CancelledError"
           THEN dq' = [dq EXCEPT !.pc = "done", !.outcome = "raised",
                                 !.failure = e]
           ELSE dq' = [dq EXCEPT
                   !.pc = "done", !.outcome = "returned", !.failure = e,
                   !.result = FallbackDistribution(
                                 dq.user_query, dq.chat_history, e)]
    /\ UNCHANGED <<req, graph, tasks>>
    /\ UNCHANGED billing
    /\ UNCHANGED side

----------------------------------------------------------------------------
(* models/conversations.py: the conversations collection, documents in     *)
(* insertion order, and one caller of                                      *)
(* get_active_conversation_or_create_one                                   *)

MaxConversations == 3
MaxMessages == 1
MaxLookups == 3

ConvUsers == {"uA", "uB"}

\* uuid_field("CONV_"): the primary key of the n-th document created, never
\* the key of an earlier one
ConvNames == <<"CONV_1", "CONV_2", "CONV_3", "CONV_4", "CONV_5", "CONV_6">>

uuid_field(store) == ConvNames[Len(store) + 1]

\* the conversation_id of a request: absent, empty, a key the collection
\* holds, or a key it never holds (no request names the uuid of a document
\* that is created later)
RequestedConversationIds(store) ==
    {None, "", "CONV_0"} \cup {store[i].id : i \in 1..Len(store)}

\* Conversation(user_id=user_id), before it is saved
Conversation(store, user_id) ==
    [exists |-> TRUE, id |-> uuid_field(store), user_id |-> user_id,
     messages |-> 0]

\* the query raised DoesNotExist
NoConversation ==
    [exists |-> FALSE, id |-> None, user_id |-> None, messages |-> 0]

\* the query without its filter on the owner
conversation_async_get_by_id(store, conversation_id, user_id) ==
    LET found == {i \in 1..Len(store) : store[i].id = conversation_id}
    IN  IF found = {} THEN NoConversation
        ELSE store[CHOOSE i \in found : TRUE]

\* Conversation.objects.async_get(id=conversation_id, user_id=user_id)
conversation_async_get(store, conversation_id, user_id) ==
    LET found == {i \in 1..Len(store) :
                     /\ store[i].id = conversation_id
                     /\ store[i].user_id = user_id}
    IN  IF found = {} THEN NoConversation
        ELSE store[CHOOSE i \in found : TRUE]

IdleConvs ==
    [store |-> <<>>, pc |-> "idle", user_id |-> None,
     conversation_id |-> None, returned |-> None, n |-> 0]

\* get_active_conversation_or_create_one(user_id, conversation_id) up to
\* its first await: the query when conversation_id is truthy, the save of
\* a new document otherwise
StartGetConversation ==
    /\ convs.pc \in {"idle", "returned"}
    /\ convs.n < MaxLookups
    /\ \E u \in ConvUsers, cid \in RequestedConversationIds(convs.store) :
          convs' = [convs EXCEPT
                      !.pc = IF Truthy(cid) THEN "get" ELSE "save",
                      !.user_id = u, !.conversation_id = cid,
                      !.returned = None, !.n = @ + 1]
    /\ UNCHANGED <<calc, intents, amt, uctx>>
    /\ UNCHANGED billing
    /\ UNCHANGED orch

\* the awaited query: its document is returned, or DoesNotExist leads to
\* the except branch
ConversationGet ==
    /\ convs.pc = "get"
    /\ LET c == conversation_async_get(convs.store, convs.conversation_id,
                                       convs.user_id)
       IN  IF c.exists
           THEN convs' = [convs EXCEPT !.pc = "returned", !.returned = c.id]
           ELSE convs' = [convs EXCEPT !.pc = "save"]
    /\ UNCHANGED <<calc, intents, amt, uctx>>
    /\ UNCHANGED billing
    /\ UNCHANGED orch

\* conversation = Conversation(user_id=user_id); await
\* conversation.async_save(); return conversation
ConversationSave ==
    /\ convs.pc = "save"
    /\ Len(convs.store) < MaxConversations
    /\ LET c == Conversation(convs.store, convs.user_id)
       IN  convs' = [convs EXCEPT !.store = Append(@, c),
                                  !.pc = "returned", !.returned = c.id]
    /\ UNCHANGED <<calc, intents, amt, uctx>>
    /\ UNCHANGED billing
    /\ UNCHANGED orch

\* Conversation.add_message on the conversation the caller was given
AddMessage ==
    /\ convs.pc = "returned"
    /\ \E i \in 1..Len(convs.store) :
          /\ convs.store[i].id = convs.returned
          /\ convs.store[i].messages < MaxMessages
          /\ convs' = [convs EXCEPT !.store[i].messages = @ + 1]
    /\ UNCHANGED <<calc, intents, amt, uctx>>
    /\ UNCHANGED billing
    /\ UNCHANGED orch

----------------------------------------------------------------------------
(* orchestrator/llm_agent.py: arun_agent; resources/orchestrator.py *)

NoOutcome == [kind |-> "none"]

IdleRequest ==
    [pc |-> "idle", user_id |-> None, conversation_id |-> None,
     conversation_id_out |-> None, call |-> 0, balance_checked |-> 0,
     failure |-> "none", arun |-> NoOutcome, http |-> 0,
     detail |-> "none"]

\* OrchestratorResponse(...)
OrchestratorResponse(response, conversation_id, agent_queries, agent_responses, moderator_responses, balance) ==
    [response |-> response, conversation_id |-> conversation_id,
     agent_queries |-> agent_queries, agent_responses |-> agent_responses,
     moderator_responses |-> moderator_responses, balance |-> balance]

\* the fixed text returned on failure
GenericMessage == [generic |-> "Sorry, something went wrong"]

\* every exception leaves arun_agent as it is
arun_agent_reraise(r, exc) == [kind |-> "raised", exc |-> exc]

\* the handlers of arun_agent: PaymentRequiredError is raised again as
\* HTTPException(402), any other Exception gives the generic response
arun_agent_except(r, exc) ==
    IF exc = "PaymentRequiredError"
    THEN [kind |-> "raised", exc |-> "HTTPException", status_code |-> 402]
    ELSE [kind |-> "returned",
          response |->
             OrchestratorResponse(
                GenericMessage,
                IF r.conversation_id_out # None
                THEN r.conversation_id_out ELSE "",
                <<>>, <<>>, NoObject, NoObject)]

\* run_orchestrator_endpoint: a value returned by arun_agent is
\* subscripted (result["final_response"]), which an OrchestratorResponse
\* does not support; the TypeError, and any exception of arun_agent, the
\* HTTPException included, is caught and answered with status 500 and the
\* detail "Sage orchestrator execution failed: " + str(e)
run_orchestrator_endpoint(outcome) ==
    IF outcome.kind = "raised"
    THEN [status_code |-> 500, detail |-> outcome.exc]
    ELSE IF "getitem" \in DOMAIN outcome.response
    THEN [status_code |-> 200, detail |-> "none"]
    ELSE [status_code |-> 500, detail |-> "TypeError"]

\* arun_agent ends with the outcome and the endpoint answers
EndRequest(r, outcome) ==
    req' = [r EXCEPT !.pc = "done", !.arun = outcome,
                     !.http = run_orchestrator_endpoint(outcome).status_code,
                     !.detail = run_orchestrator_endpoint(outcome).detail]

\* an Exception raised inside the try of arun_agent
Fail(r, exc) ==
    EndRequest([r EXCEPT !.failure = exc], arun_agent_except(r, exc))

\* perform_pre_request_checks(user_id) up to its first await
ChecksStarted(uid) ==
    [IdleCall EXCEPT !.pc = "goc_get", !.kind = "checks", !.uid = uid,
                     !.ret = "check"]

\* a caller of perform_pre_request_checks(user_id)
StartChecks(c) ==
    /\ calls[c].pc = "idle"
    /\ \E uid \in Accounts : SetCall(c, ChecksStarted(uid))
    /\ UNCHANGED <<users, usage, payments, hooks, credits>>
    /\ UNCHANGED orch
    /\ UNCHANGED side

\* the endpoint calls arun_agent(query, user_id, conversation_id) for an
\* authenticated user; arun_agent runs up to the first await of
\* perform_pre_request_checks(user_id), which is given the user id and
\* does not read the context variable
StartRequest ==
    /\ req.pc = "idle"
    /\ calls[NodeCall].pc = "idle"
    /\ \E uid \in Accounts,
          cid \in RequestedConversationIds(convs.store) :
          /\ req' = [req EXCEPT !.pc = "checks", !.user_id = uid,
                                !.conversation_id = cid,
                                !.conversation_id_out = cid,
                                !.call = NodeCall]
          /\ SetCall(NodeCall, ChecksStarted(uid))
    /\ UNCHANGED <<users, usage, payments, hooks, credits>>
    /\ UNCHANGED <<graph, tasks, dq>>
    /\ UNCHANGED side

\* perform_pre_request_checks(user_id) has returned, or raised what
\* check_user_balance or the store raised; get_active_conversation_or_
\* create_one then runs up to its first await: the query when
\* conversation_id is truthy, the save of a new document otherwise
PreRequestChecks ==
    /\ req.pc = "checks"
    /\ calls[req.call].pc = "done"
    /\ LET r == calls[req.call]
       IN  IF r.outcome = "returned"
           THEN req' = [req EXCEPT
                          !.pc = IF Truthy(req.conversation_id)
                                 THEN "conversation_get"
                                 ELSE "conversation_save",
                          !.balance_checked = r.seen]
           ELSE Fail(req, r.outcome)
    /\ UNCHANGED <<graph, tasks, dq>>
    /\ UNCHANGED billing
    /\ UNCHANGED side

\* Conversation.objects.async_get(id=conversation_id, user_id=user_id):
\* the document of the user is returned, DoesNotExist leads on to the
\* creation, any other exception of the store leaves the function
GetConversation ==
    /\ req.pc = "conversation_get"
    /\ \/ LET c == conversation_async_get(convs.store, req.conversation_id,
                                          req.user_id)
          IN  IF c.exists
              THEN req' = [req EXCEPT !.pc = "history",
                                      !.conversation_id_out = c.id]
              ELSE req' = [req EXCEPT !.pc = "conversation_save"]
       \/ Fail(req, "StoreError")
    /\ UNCHANGED <<graph, tasks, dq>>
    /\ UNCHANGED billing
    /\ UNCHANGED side

\* conversation = Conversation(user_id=user_id); await
\* conversation.async_save(): the new document has a fresh id
CreateConversation ==
    /\ req.pc = "conversation_save"
    /\ Len(convs.store) < MaxConversations
    /\ \/ LET c == Conversation(convs.store, req.user_id)
          IN  /\ convs' = [convs EXCEPT !.store = Append(@, c)]
              /\ req' = [req EXCEPT !.pc = "history",
                                    !.conversation_id_out = c.id]
       \/ /\ Fail(req, "StoreError")
          /\ UNCHANGED convs
    /\ UNCHANGED <<graph, tasks, dq>>
    /\ UNCHANGED billing
    /\ UNCHANGED <<calc, intents, amt, uctx>>

\* the methods class Conversation defines
ConversationMethods ==
    {"add_message", "get_chat_history"}

\* conversation.get_chat_history_with_summaries(): Conversation has no
\* such attribute, and the AttributeError is raised before the state is
\* built or the graph invoked
GetChatHistory ==
    /\ req.pc = "history"
    /\ "get_chat_history_with_summaries" \notin ConversationMethods
    /\ Fail(req, "AttributeError")
    /\ UNCHANGED <<graph, tasks, dq>>
    /\ UNCHANGED billing
    /\ UNCHANGED side

----------------------------------------------------------------------------
(* lib/auth/context.py: current_user_id_var and the user_id_context        *)
(* blocks that are open, innermost last                                    *)

MaxDepth == 2
MaxTokens == 2

ContextUsers == {"uA", "uB"}

\* Token.MISSING: the variable has no value in this context
MISSING == "MISSING"

\* current_user_id_var.get(), with the default None of its declaration
current_user_id_var_get(var) == IF var = MISSING THEN None ELSE var

\* current_user_id_var.set(user_id): the token keeps the old value
current_user_id_var_set(var, user_id) ==
    [var |-> user_id, token |-> [old_value |-> var]]

\* a reset that clears the variable whatever the token holds
reset_to_none(token) == None

\* current_user_id_var.reset(token)
reset_current_user_id(token) == token.old_value

\* tokens are the Tokens set_current_user_id has returned to the running
\* code and that no reset has used, oldest first; spent says that the code
\* holds a Token a reset has used
IdleContext ==
    [var |-> MISSING, blocks |-> <<>>, tokens |-> <<>>, spent |-> FALSE,
     raising |-> FALSE,
     last |-> [kind |-> "none", depth |-> 0]]

\* with user_id_context(user_id): the generator runs up to its yield
EnterBlock ==
    /\ ~uctx.raising
    /\ Len(uctx.blocks) < MaxDepth
    /\ \E u \in ContextUsers :
          LET s == current_user_id_var_set(uctx.var, u)
          IN  uctx' = [uctx EXCEPT
                        !.var = s.var,
                        !.blocks = Append(@, [token |-> s.token,
                                              before |->
                                                current_user_id_var_get(
                                                    uctx.var)])]
    /\ UNCHANGED <<calc, intents, amt, convs>>
    /\ UNCHANGED billing
    /\ UNCHANGED orch

\* set_current_user_id(user_id) called by the code that is running: the
\* Token returned is kept for a later reset_current_user_id, or dropped
\* once the caller holds MaxTokens of them
SetCurrentUserId ==
    /\ ~uctx.raising
    /\ \E u \in ContextUsers :
          LET s == current_user_id_var_set(uctx.var, u)
          IN  uctx' = [uctx EXCEPT
                        !.var = s.var,
                        !.tokens = IF Len(@) < MaxTokens
                                   THEN Append(@, s.token)
                                   ELSE @]
    /\ UNCHANGED <<calc, intents, amt, convs>>
    /\ UNCHANGED billing
    /\ UNCHANGED orch

\* reset_current_user_id(token) with a Token the running code holds, in
\* any order: the variable goes back to the value it had before the set
\* that made the Token; a Token that was used already gives RuntimeError
\* and leaves the variable as it is
ResetCurrentUserId ==
    /\ ~uctx.raising
    /\ \/ \E i \in 1..Len(uctx.tokens) :
             uctx' = [uctx EXCEPT
                       !.var = reset_current_user_id(uctx.tokens[i]),
                       !.tokens = SubSeq(@, 1, i - 1)
                                    \o SubSeq(@, i + 1, Len(@)),
                       !.spent = TRUE]
       \/ /\ uctx.spent
          /\ uctx' = [uctx EXCEPT !.raising = TRUE]
    /\ UNCHANGED <<calc, intents, amt, convs>>
    /\ UNCHANGED billing
    /\ UNCHANGED orch

\* clear_current_user_id()
ClearCurrentUserId ==
    /\ ~uctx.raising
    /\ uctx.var # None
    /\ uctx' = [uctx EXCEPT
                !.var = current_user_id_var_set(uctx.var, None).var]
    /\ UNCHANGED <<calc, intents, amt, convs>>
    /\ UNCHANGED billing
    /\ UNCHANGED orch

\* the body of the innermost block raises
RaiseInBlock ==
    /\ ~uctx.raising
    /\ Len(uctx.blocks) > 0
    /\ uctx' = [uctx EXCEPT !.raising = TRUE]
    /\ UNCHANGED <<calc, intents, amt, convs>>
    /\ UNCHANGED billing
    /\ UNCHANGED orch

\* the innermost block is left, by the end of its body or by the exception
\* that is propagating: the finally clause resets the variable
ExitBlock ==
    /\ Len(uctx.blocks) > 0
    /\ LET n == Len(uctx.blocks)
           b == uctx.blocks[n]
       IN  uctx' = [uctx EXCEPT
                     !.var = reset_current_user_id(b.token),
                     !.blocks = SubSeq(@, 1, n - 1),
                     !.last = [kind |-> IF uctx.raising THEN "exception"
                                        ELSE "normal",
                               depth |-> n]]
    /\ UNCHANGED <<calc, intents, amt, convs>>
    /\ UNCHANGED billing
    /\ UNCHANGED orch

\* an except clause around a block catches the exception
CatchException ==
    /\ uctx.raising
    /\ uctx' = [uctx EXCEPT !.raising = FALSE]
    /\ UNCHANGED <<calc, intents, amt, convs>>
    /\ UNCHANGED billing
    /\ UNCHANGED orch

----------------------------------------------------------------------------

Init ==
    /\ users \in [Accounts ->
                    {AbsentUser} \cup
                    {[exists |-> TRUE, balance |-> b, opening |-> b] :
                        b \in StartBalances}]
    /\ usage = {}
    /\ payments = [i \in Intents |-> AbsentPayment]
    /\ calls = [c \in CallIds |-> IdleCall]
    /\ hooks = [d \in DeliveryIds |-> IdleHook]
    /\ credits = [k \in CreditIds |-> IdleCredit]
    /\ req = IdleRequest
    /\ graph = IdleGraph
    /\ tasks = <<>>
    /\ dq = IdleDistribute
    /\ calc = IdleCalc
    /\ intents = {}
    /\ amt = IdleAmount
    /\ convs = IdleConvs
    /\ uctx = IdleContext

NextLedger ==
    \E c \in CallIds :
        \/ StartModify(c)
        \/ GocGet(c)
        \/ GocSave(c)
        \/ ModifyDec(c)
        \/ ModifyReload(c)

SpecLedger == Init /\ [][NextLedger]_vars

NextRecorder ==
    \E c \in CallIds :
        \/ StartProcessBilling(c)
        \/ GocGet(c)
        \/ GocSave(c)
        \/ ComputeCost(c)
        \/ ModifyDec(c)
        \/ ModifyReload(c)
        \/ SaveUsageEvent(c)
        \/ Cancel(c)
        \/ StoreRaise(c)

SpecRecorder == Init /\ [][NextRecorder]_vars

\* concurrent calls of BillingLLMProxy.ainvoke
NextProxy ==
    \E c \in CallIds :
        \/ StartInvoke(c)
        \/ GocGet(c)
        \/ GocSave(c)
        \/ PreRequestCheck(c)
        \/ ProviderReturn(c)
        \/ ProviderRaise(c)
        \/ Cancel(c)
        \/ ComputeCost(c)
        \/ ModifyDec(c)
        \/ ModifyReload(c)
        \/ SaveUsageEvent(c)
        \/ SaveFailedEvent(c)
        \/ StoreRaise(c)

SpecProxy == Init /\ [][NextProxy]_vars

\* concurrent calls of BillingLLMProxy.astream
NextStream ==
    \E c \in CallIds :
        \/ StartStream(c)
        \/ GocGet(c)
        \/ GocSave(c)
        \/ PreRequestCheck(c)
        \/ ProviderRaise(c)
        \/ Cancel(c)
        \/ StreamChunk(c)
        \/ StreamResume(c)
        \/ StreamClose(c)
        \/ StreamEnd(c)
        \/ ComputeCost(c)
        \/ ModifyDec(c)
        \/ ModifyReload(c)
        \/ SaveUsageEvent(c)
        \/ SaveFailedEvent(c)
        \/ StoreRaise(c)

SpecStream == Init /\ [][NextStream]_vars

\* the method a caller calls on its proxy: the callers take turns, so that
\* calls of both methods run side by side
MeteredKind(c) == IF c % 2 = 1 THEN "ainvoke" ELSE "astream"

\* concurrent calls of BillingLLMProxy.ainvoke and BillingLLMProxy.astream
NextMetered ==
    \E c \in CallIds :
        \/ (MeteredKind(c) = "ainvoke" /\ StartInvoke(c))
        \/ (MeteredKind(c) = "astream" /\ StartStream(c))
        \/ GocGet(c)
        \/ GocSave(c)
        \/ PreRequestCheck(c)
        \/ ProviderReturn(c)
        \/ ProviderRaise(c)
        \/ Cancel(c)
        \/ StreamChunk(c)
        \/ StreamResume(c)
        \/ StreamClose(c)
        \/ StreamEnd(c)
        \/ ComputeCost(c)
        \/ ModifyDec(c)
        \/ ModifyReload(c)
        \/ SaveUsageEvent(c)
        \/ SaveFailedEvent(c)
        \/ StoreRaise(c)

SpecMetered == Init /\ [][NextMetered]_vars

NextPay ==
    \/ \E d \in DeliveryIds :
          \/ StartDelivery(d)
          \/ HookGocGet(d)
          \/ HookGocSave(d)
          \/ UpsertGet(d)
          \/ UpsertSave(d)
          \/ UpsertGetEvent(d)
          \/ UpsertInsert(d)
          \/ FindExistingAndCredit(d)
    \/ \E k \in CreditIds :
          \/ StartCredit(k)
          \/ CreditClaim(k)

SpecPay == Init /\ [][NextPay]_vars

NextCost ==
    \/ StartCost
    \/ CalculateCost

SpecCost == Init /\ [][NextCost]_vars

NextTopUp ==
    \/ CreatePaymentIntent
    \/ \E d \in DeliveryIds :
          \/ StartDelivery(d)
          \/ StartOtherDelivery(d)
          \/ HookGocGet(d)
          \/ HookGocSave(d)
          \/ UpsertGet(d)
          \/ UpsertSave(d)
          \/ UpsertGetEvent(d)
          \/ UpsertInsert(d)
          \/ FindExistingAndCredit(d)

SpecTopUp == Init /\ [][NextTopUp]_vars

NextAmount ==
    \/ StartValidate
    \/ ValidateAmount
    \/ CreatePaymentIntent

SpecAmount == Init /\ [][NextAmount]_vars

NextConv ==
    \/ StartGetConversation
    \/ ConversationGet
    \/ ConversationSave
    \/ AddMessage

SpecConv == Init /\ [][NextConv]_vars

NextContext ==
    \/ EnterBlock
    \/ SetCurrentUserId
    \/ ResetCurrentUserId
    \/ ClearCurrentUserId
    \/ RaiseInBlock
    \/ ExitBlock
    \/ CatchException

SpecContext == Init /\ [][NextContext]_vars

NextFanOut ==
    \/ StartFanOut
    \/ ParallelSagesStart
    \/ \E i \in 1..MaxSages : TaskReturn(i)
    \/ \E i \in 1..MaxSages : TaskRaise(i)
    \/ ParallelSagesJoin

SpecFanOut == Init /\ [][NextFanOut]_vars

\* the awaits of a metered ainvoke, one step each
ProxyStep(c) ==
    \/ GocGet(c)
    \/ GocSave(c)
    \/ PreRequestCheck(c)
    \/ ProviderReturn(c)
    \/ ProviderRaise(c)
    \/ ComputeCost(c)
    \/ ModifyDec(c)
    \/ ModifyReload(c)
    \/ SaveUsageEvent(c)
    \/ SaveFailedEvent(c)
    \/ StoreRaise(c)

\* the steps of a graph run: a node is entered, an awaited call returns or
\* raises, a node raises and the run ends
RunStep ==
    \/ SageSelectionStart
    \/ CleanUserInputStart
    \/ ProxyStep(NodeCall)
    \/ CleanUserInputReturn
    \/ NodeFailed

NextGraph ==
    \/ StartGraph
    \/ RunStep

SpecGraph == Init /\ [][NextGraph]_vars

\* the event loop runs every coroutine that is ready, and every awaited
\* external call returns or raises: a run that can take a step takes one
SpecGraphLive == Init /\ [][NextGraph]_vars /\ WF_vars(RunStep)

\* the nodes called one after the other, each with the state the one
\* before it returned
NextNodes ==
    \/ StartCleaner
    \/ CleanUserInputStart
    \/ ProxyStep(NodeCall)
    \/ Cancel(NodeCall)
    \/ CleanUserInputReturn
    \/ StartFanOutCleaned
    \/ ParallelSagesStart
    \/ \E i \in 1..MaxSages : TaskReturn(i)
    \/ \E i \in 1..MaxSages : TaskRaise(i)
    \/ ParallelSagesJoin
    \/ StartConsolidation
    \/ ConsolidationNode

SpecNodes == Init /\ [][NextNodes]_vars

NextResolver ==
    \/ StartDistribute
    \/ ProxyStep(NodeCall)
    \/ Cancel(NodeCall)
    \/ DistributeReturn
    \/ DistributeRaise

SpecResolver == Init /\ [][NextResolver]_vars

\* arun_agent up to its response and the endpoint around it.  Other
\* callers that named no conversation have been given new ones before
\* the request; while the request checks the balance, the checks of
\* other requests for the account run
EarlierCaller ==
    /\ req.pc = "idle"
    /\ \/ StartGetConversation /\ convs'.conversation_id = None
       \/ ConversationSave

ConcurrentChecks(c) ==
    /\ req.pc = "checks"
    /\ StartChecks(c)

NextRequest ==
    \/ StartRequest
    \/ \E c \in CallIds : GocGet(c)
    \/ \E c \in CallIds : GocSave(c)
    \/ \E c \in CallIds : PreRequestCheck(c)
    \/ \E c \in CallIds : StoreRaise(c)
    \/ \E c \in CallIds : ConcurrentChecks(c)
    \/ EarlierCaller
    \/ PreRequestChecks
    \/ GetConversation
    \/ CreateConversation
    \/ GetChatHistory

SpecRequest == Init /\ [][NextRequest]_vars

----------------------------------------------------------------------------
(* Balance ledger *)

RECURSIVE SumDebited(_, _)
SumDebited(S, a) ==
    IF S = {} THEN 0
    ELSE LET c == CHOOSE x \in S : TRUE
         IN  (IF calls[c].uid = a THEN calls[c].debited ELSE 0)
             + SumDebited(S \ {c}, a)

\* C5: whatever the interleaving of the callers of async_modify_balance,
\* the stored balance of an account equals its opening balance plus the
\* exact sum of the deltas applied so far (delta = -amount); no update is
\* lost.
C5_NoLostUpdate ==
    \A a \in Accounts :
        users[a].exists =>
            users[a].balance = users[a].opening - SumDebited(CallIds, a)

\* two callers have both applied their decrement before either reloaded
C5_Witness ==
    \E c1, c2 \in CallIds :
        /\ c1 # c2
        /\ calls[c1].pc = "reload" /\ calls[c2].pc = "reload"
        /\ calls[c1].uid = calls[c2].uid
        /\ calls[c1].amount # 0 /\ calls[c2].amount # 0

----------------------------------------------------------------------------
(* Payment credit *)

\* the deliveries and credit_if_not_processed calls that added the credit
\* of intent i to a balance
HookCredits(i) == {d \in DeliveryIds : hooks[d].intent = i /\ hooks[d].applied > 0}

CallCredits(i) == {k \in CreditIds : credits[k].intent = i /\ credits[k].applied > 0}

\* the delivery passed every guard of handle_payment_succeeded and made
\* the call that credits the balance
ReachedCredit(d) ==
    /\ hooks[d].pc = "done"
    /\ hooks[d].type = "payment_intent.succeeded"
    /\ hooks[d].payment.exists
    /\ hooks[d].payment.credited = hooks[d].credited_tenths
    /\ hooks[d].outcome \in {"AttributeError", "returned"}

\* C1: however often and in whatever interleaving payment_intent.succeeded
\* is delivered for an intent, the balance is credited at most once for
\* that intent.
C1_AtMostOneCredit ==
    \A i \in Intents :
        Cardinality(HookCredits(i)) + Cardinality(CallCredits(i)) <= 1

\* two deliveries of the succeeded event of one intent have both run up to
\* the credit call
C1_Witness ==
    \E d1, d2 \in DeliveryIds :
        /\ d1 # d2
        /\ hooks[d1].intent = hooks[d2].intent
        /\ ReachedCredit(d1) /\ ReachedCredit(d2)

\* C2: two concurrent calls of credit_if_not_processed with the same intent
\* and amount on a succeeded, unprocessed record: exactly one wins, applies
\* exactly one credit and returns true; the other returns false and applies
\* nothing.
C2_ExactlyOneWinnerCredits ==
    \A k1, k2 \in CreditIds :
        ( /\ k1 # k2
          /\ credits[k1].pc = "done" /\ credits[k2].pc = "done"
          /\ credits[k1].intent = credits[k2].intent
          /\ credits[k1].amount = credits[k2].amount
          /\ credits[k1].unclaimed /\ credits[k2].unclaimed
          /\ payments[credits[k1].intent].status = "succeeded" )
        => \E w, l \in {k1, k2} :
              /\ w # l
              /\ credits[w].won /\ credits[w].outcome = "True"
              /\ credits[w].applied = credits[w].amount
              /\ ~credits[l].won /\ credits[l].outcome = "False"
              /\ credits[l].applied = 0

\* C3: processed goes false->true at most once and never back, and the
\* credit of an intent has been added to the balance if and only if that
\* transition happened, by the call that performed it.
C3_ProcessedIffCredited ==
    [][\A i \in Intents :
          /\ payments[i].processed => payments'[i].processed
          /\ payments'[i].processed <=>
                \E k \in CreditIds :
                    /\ credits'[k].intent = i
                    /\ credits'[k].won
                    /\ credits'[k].applied = credits'[k].amount
          /\ \A k \in CreditIds :
                (credits'[k].intent = i /\ credits'[k].applied > 0)
                    => credits'[k].won]_vars

\* C28: a balance is increased only by the credit step of a delivery of
\* payment_intent.succeeded; creating a payment intent and processing a
\* failed, canceled or other event change no balance and never reach the
\* credit call; an account created on the way opens with the default
\* balance.
C28_OnlySucceededCredits ==
    [][/\ \A u \in Accounts :
            /\ ( users[u].exists
                 /\ users'[u].balance # users[u].balance )
               => \E d \in DeliveryIds :
                     /\ hooks[d].type = "payment_intent.succeeded"
                     /\ hooks[d].pc = "find_existing"
                     /\ hooks'[d].applied > 0
                     /\ users'[u].balance
                           = users[u].balance + hooks'[d].applied
            /\ ( ~users[u].exists /\ users'[u].exists )
               => users'[u].balance = DefaultBalance
       /\ \A d \in DeliveryIds :
            hooks'[d].type # "payment_intent.succeeded"
               => /\ hooks'[d].pc # "find_existing"
                  /\ hooks'[d].applied = 0
                  /\ hooks'[d].outcome # "AttributeError"
       /\ intents' # intents => users' = users]_vars

\* a failed and a canceled event have been processed and recorded and a
\* payment intent created, and the balance is what the account opened with
C28_Witness ==
    /\ \E d1, d2 \in DeliveryIds :
          /\ hooks[d1].pc = "done" /\ hooks[d2].pc = "done"
          /\ hooks[d1].type = "payment_intent.payment_failed"
          /\ hooks[d2].type = "payment_intent.canceled"
          /\ hooks[d1].outcome = "returned"
          /\ hooks[d2].outcome = "returned"
          /\ payments[hooks[d1].intent].exists
          /\ payments[hooks[d1].intent].status = "failed"
    /\ \E i \in intents : i.http = 201
    /\ \A u \in Accounts :
          users[u].exists /\ users[u].balance = users[u].opening

----------------------------------------------------------------------------
(* Usage recorder and metered invocation wrapper *)

EventsOf(c) ==
    {e \in usage : e.uid = calls[c].uid /\ e.request_id = calls[c].request_id}

\* the success UsageEvent the call must leave behind
SuccessEvent(c) ==
    LET r == calls[c]
        input_tokens == BilledInputTokens(r.input_len, r.result)
        output_tokens == BilledOutputTokens(r.result)
    IN  [uid |-> r.uid, request_id |-> r.request_id, model |-> r.model,
         input_tokens |-> input_tokens, output_tokens |-> output_tokens,
         cost |-> calculate_cost_tenths_of_cents(r.model, input_tokens,
                                                 output_tokens),
         status |-> "success"]

FailedEvent(c) ==
    [uid |-> calls[c].uid, request_id |-> calls[c].request_id,
     model |-> calls[c].model, input_tokens |-> 0, output_tokens |-> 0,
     cost |-> 0, status |-> "failed"]

\* C4: process_billing performed twice with the same account and request
\* id (same arguments), neither call cancelled nor failed by the store,
\* leaves one stored UsageEvent, raises nothing on the second call and
\* debits the balance only once.
C4_NoDoubleDebit ==
    \A c1, c2 \in CallIds :
        ( /\ c1 # c2
          /\ calls[c1].kind = "process_billing"
          /\ calls[c2].kind = "process_billing"
          /\ calls[c1].pc = "done" /\ calls[c2].pc = "done"
          /\ {calls[c1].outcome, calls[c2].outcome}
                \cap {"CancelledError", "StoreError"} = {}
          /\ calls[c1].uid = calls[c2].uid
          /\ calls[c1].request_id = calls[c2].request_id
          /\ calls[c1].model = calls[c2].model
          /\ calls[c1].result = calls[c2].result
          /\ is_model_supported(calls[c1].model) )
        => /\ EventsOf(c1) = {SuccessEvent(c1)}
           /\ calls[c1].outcome = "returned"
           /\ calls[c2].outcome = "returned"
           /\ calls[c1].debited + calls[c2].debited = SuccessEvent(c1).cost

\* process_billing has extracted the token counts of call c
Counted(c) ==
    /\ calls[c].kind = "process_billing"
    /\ \/ calls[c].pc \in {"dec", "reload", "save_event"}
       \/ calls[c].pc = "done" /\ calls[c].outcome = "returned"

\* C30: the billed token counts are the provider's counts (0 for a count
\* the usage entry lacks) whenever the response metadata carries usage,
\* and floor(characters / 4) of input and output only when it carries
\* none; the stored UsageEvent holds the same counts.
C30_ProviderCountsFirst ==
    \A c \in CallIds :
        Counted(c) =>
            LET r == calls[c]
                provided == r.result.meta = "usage"
                input_tokens ==
                    IF provided
                    THEN (IF r.result.usage_in = NoneInt THEN 0
                          ELSE r.result.usage_in)
                    ELSE r.input_len \div 4
                output_tokens ==
                    IF provided
                    THEN (IF r.result.usage_out = NoneInt THEN 0
                          ELSE r.result.usage_out)
                    ELSE r.result.text_len \div 4
            IN  /\ r.input_tokens = input_tokens
                /\ r.output_tokens = output_tokens
                /\ \A e \in usage :
                      ( /\ e.uid = r.uid /\ e.request_id = r.request_id
                        /\ r.pc = "done"
                        /\ \A c2 \in CallIds \ {c} :
                              calls[c2].request_id # r.request_id )
                      => /\ e.input_tokens = input_tokens
                         /\ e.output_tokens = output_tokens

\* one call was billed by the provider's counts although the heuristic
\* gives other numbers, and one call by the heuristic for lack of usage
C30_Witness ==
    \E c1, c2 \in CallIds :
        /\ Counted(c1) /\ calls[c1].pc = "done"
        /\ calls[c1].result.meta = "usage"
        /\ calls[c1].output_tokens = 2000
        /\ calls[c1].result.text_len \div 4 # 2000
        /\ Counted(c2) /\ calls[c2].pc = "done"
        /\ calls[c2].result.meta # "usage"
        /\ calls[c2].output_tokens = calls[c2].result.text_len \div 4
        /\ calls[c2].output_tokens > 0

\* C6: a call of ainvoke or astream reaches the provider only if the
\* balance it read is strictly greater than -100; with a balance of -100 or lower it fails
\* with PaymentRequired, no provider call is made, no UsageEvent is
\* written and the balance is not changed by the call.
C6_PreflightGate ==
    /\ \A c \in CallIds :
          InProxy(calls[c]) =>
            /\ calls[c].provider_calls > 0 => calls[c].passed
            /\ calls[c].checked =>
                  (calls[c].passed <=> calls[c].seen > -100)
            /\ (calls[c].checked /\ ~calls[c].passed) =>
                  /\ calls[c].outcome = "PaymentRequiredError"
                  /\ calls[c].provider_calls = 0
                  /\ calls[c].debited = 0
                  /\ calls[c].request_id = NoneInt
    /\ \A e \in usage :
          \E c \in CallIds : calls[c].passed /\ e \in EventsOf(c)

\* an ainvoke and an astream were both refused at the boundary balance
\* -100, neither having called the provider
C6_Witness ==
    \E c1, c2 \in CallIds :
        /\ calls[c1].kind = "ainvoke"
        /\ calls[c2].kind = "astream"
        /\ \A c \in {c1, c2} :
              /\ calls[c].outcome = "PaymentRequiredError"
              /\ calls[c].seen = -100
              /\ calls[c].provider_calls = 0

\* C7: when the provider call of ainvoke fails, exactly one failed
\* UsageEvent with cost 0 is written under the call's request id, the
\* balance is left unchanged and the provider's exception reaches the
\* caller.
C7_FailureLogged ==
    \A c \in CallIds :
        ( /\ calls[c].kind = "ainvoke"
          /\ calls[c].provider_exc # "none"
          /\ calls[c].pc = "done" )
        => /\ EventsOf(c) = {FailedEvent(c)}
           /\ calls[c].debited = 0
           /\ calls[c].outcome = calls[c].provider_exc

\* C8: when the provider call of ainvoke succeeds, the balance is debited
\* by exactly cost(model, input_units, output_units), once; exactly one
\* success UsageEvent with those unit counts and that cost is stored under
\* the call's fresh request id; the provider's result is returned unchanged.
C8_SuccessBilledOnce ==
    \A c \in CallIds :
        ( /\ calls[c].kind = "ainvoke"
          /\ calls[c].got_result
          /\ calls[c].pc = "done" )
        => /\ calls[c].outcome = "returned"
           /\ calls[c].returned = calls[c].result
           /\ EventsOf(c) = {SuccessEvent(c)}
           /\ calls[c].debited = SuccessEvent(c).cost

\* C9: for an astream call that passed the pre-flight check, no debit
\* happens before the stream is drained, and every stream ends with
\* exactly one bookkeeping: a success UsageEvent plus one debit, or a
\* failed zero-cost UsageEvent and no debit; none ends with neither.
C9_StreamBookkeptOnce ==
    \A c \in CallIds :
        (calls[c].kind = "astream" /\ calls[c].passed) =>
            /\ calls[c].debited # 0 => calls[c].got_result
            /\ calls[c].pc = "done" =>
                  \/ /\ EventsOf(c) = {SuccessEvent(c)}
                     /\ calls[c].debited = SuccessEvent(c).cost
                  \/ /\ EventsOf(c) = {FailedEvent(c)}
                     /\ calls[c].debited = 0

\* C10: an ainvoke call that passed the pre-flight check and did not
\* complete successfully has written its failed UsageEvent, whatever the
\* exit path (provider exception, timeout, cancellation).
C10_FailureWriteOnEveryExit ==
    \A c \in CallIds :
        ( /\ calls[c].kind = "ainvoke"
          /\ calls[c].passed
          /\ calls[c].pc = "done"
          /\ calls[c].outcome # "returned" )
        => FailedEvent(c) \in usage

----------------------------------------------------------------------------
(* Metering calculator *)

\* the cost before rounding is Numerator / 2000 tenths of cents: rates are
\* half dollars per 1M tokens, a dollar is 1000 tenths of cents, and the
\* markup is 3
Numerator ==
    (calc.input_tokens * MODEL_PRICING[calc.model_name].input
        + calc.output_tokens * MODEL_PRICING[calc.model_name].output) * 3

\* the input rate of the model in tenths of cents per 1M tokens
InputRateTenthsOfCents == MODEL_PRICING[calc.model_name].input * 500

\* C24: for every supported model and all non-negative token counts the
\* cost is the exact value rounded half up: the integer c with
\* c - 1/2 <= exact < c + 1/2, so that a value halfway between two units
\* goes up.
C24_ExactRoundHalfUp ==
    calc.outcome = "returned" =>
        /\ calc.cost >= 0
        /\ 2000 * (2 * calc.cost - 1) <= 2 * Numerator
        /\ 2 * Numerator < 2000 * (2 * calc.cost + 1)

\* a cost exactly halfway between two units has been computed
C24_Witness ==
    /\ calc.outcome = "returned"
    /\ Numerator % 2000 = 1000
    /\ 2000 * calc.cost = Numerator + 1000

\* C25 as stated: the cost of 1,000,000 input tokens and no output tokens
\* is the input rate of the model, within one tenth of a cent.
C25_EqualsInputRate ==
    ( /\ calc.outcome = "returned"
      /\ calc.input_tokens = 1000000 /\ calc.output_tokens = 0 )
    => /\ calc.cost - InputRateTenthsOfCents <= 1
       /\ InputRateTenthsOfCents - calc.cost <= 1

\* C25: the cost of 1,000,000 input tokens and no output tokens is the
\* input rate of the model multiplied by the markup of 3, exactly.
C25_EqualsInputRateTimesMarkup ==
    ( /\ calc.outcome = "returned"
      /\ calc.input_tokens = 1000000 /\ calc.output_tokens = 0 )
    => calc.cost = 3 * InputRateTenthsOfCents

C25_Witness ==
    /\ calc.outcome = "returned"
    /\ calc.input_tokens = 1000000 /\ calc.output_tokens = 0
    /\ calc.cost > 0

\* C26: for a model that is not in the rate table the calculator raises
\* the unsupported-model error (ValueError) and returns no cost, whatever
\* the token counts.
C26_UnsupportedModelRaises ==
    ( calc.pc = "done" /\ calc.model_name \notin DOMAIN MODEL_PRICING )
    => calc.outcome = "ValueError" /\ calc.cost = NoneInt

C26_Witness ==
    /\ calc.pc = "done"
    /\ calc.model_name \notin DOMAIN MODEL_PRICING
    /\ calc.input_tokens > 0 /\ calc.output_tokens > 0
    /\ calc.outcome = "ValueError"

----------------------------------------------------------------------------
(* Parallel fan-out / fan-in executor *)

FanOut == graph.nodes["parallel_sages"]

\* the list the node was handed and the bound configured in the state
ResolvedList == StateGet(graph.state, "sages_to_run", <<>>)

ConfiguredBound ==
    StateGet(graph.state, "max_sages_to_run", DefaultMaxSagesToRun)

FirstN(s, n) == [i \in 1..n |-> s[i]]

Launched == [i \in 1..Len(tasks) |-> tasks[i].spec]

ResultMap == graph.writes["parallel_sages"].agent_responses

Failed(i) == tasks[i].result.kind = "exception"

\* C11: given K tasks of which some fail, parallel_sages_node does not
\* raise and returns a map with exactly K entries, one per task spec; a
\* failing task has the synthetic error result (error text as answer,
\* "Error invoking sage." as summary), a succeeding task its real result.
C11_FailureIsolated ==
    WellFormed(ResolvedList) =>
        /\ FanOut.status # "raised"
        /\ ( /\ FanOut.status = "returned"
             /\ \E i \in DOMAIN tasks : Failed(i) ) =>
              /\ Len(ResultMap) = Len(tasks)
              /\ \A i \in DOMAIN tasks :
                    /\ ResultMap[i].key = tasks[i].spec.name
                    /\ IF Failed(i)
                       THEN /\ ResultMap[i].value.answer =
                                  <<"Error: ", tasks[i].result.value.exc>>
                            /\ ResultMap[i].value.summary =
                                  <<"Error invoking sage.">>
                       ELSE ResultMap[i].value =
                               SageResponse(
                                  <<"wisdom of", tasks[i].spec.name,
                                    tasks[i].user_query>>,
                                  <<"summary of", tasks[i].spec.name>>)

\* C12: the entry stored under a task's identity, which the node takes to
\* be the name of its spec, is the result of that same task, and the keys
\* are the names of the tasks, whatever the order in which the tasks
\* completed.
C12_KeyedByIdentity ==
    FanOut.status = "returned" =>
        /\ {ResultMap[k].key : k \in DOMAIN ResultMap} =
              {tasks[i].spec.name : i \in DOMAIN tasks}
        /\ \A i \in DOMAIN tasks :
              LET stored == DictGet(ResultMap, tasks[i].spec.name)
              IN  IF Failed(i)
                  THEN stored.answer[2] = tasks[i].result.value.exc
                  ELSE stored = tasks[i].result.value

\* C13: when building the batch fails before any task is launched, the
\* node raises nothing and returns a map with the single synthetic error
\* entry under the reserved key "error".
C13_BatchBuildFailureContained ==
    ( /\ ~WellFormed(limit_sages_to_run(ResolvedList, graph.state))
      /\ FanOut.status \in {"returned", "raised"} )
    => /\ FanOut.status = "returned"
       /\ DictKeys(ResultMap) = <<"error">>
       /\ ResultMap[1].value.summary = <<"Error executing sages.">>

\* C16 as stated: the tasks launched are the first min(K, bound) specs of
\* the resolved list, in order, for every configured bound.
C16_FirstMinLaunched ==
    FanOut.status \in {"running", "returned"} =>
        /\ Launched = FirstN(ResolvedList,
                             Min(Len(ResolvedList), ConfiguredBound))
        /\ Len(tasks) <= ConfiguredBound

\* C16 amended: for a positive bound (5 when the state has none) the tasks
\* launched are the first min(K, bound) specs of the resolved list in their
\* order, so at most bound tasks run; a bound that is not positive is
\* ignored and all K specs are launched in their order.
C16_PositiveBoundTruncates ==
    FanOut.status \in {"running", "returned"} =>
        IF ConfiguredBound > 0
        THEN /\ Launched = FirstN(ResolvedList,
                                  Min(Len(ResolvedList), ConfiguredBound))
             /\ Len(tasks) <= ConfiguredBound
        ELSE Launched = ResolvedList

\* a list of two specs was cut to its first spec by a bound of 1
C16_Witness ==
    /\ FanOut.status = "running"
    /\ Len(ResolvedList) = 2
    /\ ConfiguredBound = 1
    /\ Launched = <<ResolvedList[1]>>

----------------------------------------------------------------------------
(* Task specification resolver *)

\* the sages a result of distribute_query sends a query to
DistributedTo(result) ==
    SelectSeq(DictKeys(result), LAMBDA k : k # "distribution_rationale")

\* C14: when the decision provider call of the resolver fails (error,
\* timeout, unparsable output), the resolver surfaces no failure and
\* returns exactly one fallback task, the generalist.
C14_SingleGeneralistFallback ==
    (dq.pc = "done" /\ dq.failure \notin {"none", "CancelledError"}) =>
        /\ dq.outcome = "returned"
        /\ DistributedTo(dq.result) = <<"generalist_sage">>

----------------------------------------------------------------------------
(* Graph driver *)

Cleaner == graph.nodes["clean_user_input"]
Consolidation == graph.nodes["consolidation"]

Started(node) == node.status \in {"running", "returned", "merged"}

RunEnded == graph.status \in {"returned", "raised"}

\* C15: in every graph run the fan-out stage runs at least one task: a
\* run that has ended has launched a task, and the graph never goes on to
\* parallel_sages_node and consolidation with zero task specs.
C15_AtLeastOneTask ==
    /\ RunEnded => Len(tasks) >= 1
    /\ Started(FanOut) => Len(tasks) >= 1

----------------------------------------------------------------------------
(* Consolidator *)

\* C18: the consolidated text has one labeled section per entry of the
\* result map whose key is not "error", holding the answer of that task
\* under the label made from its name, in the order of the map, and no
\* section for the "error" entry.
C18_LabeledSections ==
    Consolidation.runs >= 1 =>
        /\ Consolidation.status = "returned"
        /\ LET agent_responses == graph.state.agent_responses
               text == graph.writes["consolidation"].final_response
           IN  /\ text = Text("none",
                              consolidate_responses(graph.state.user_query,
                                                    <<>>, agent_responses))
               /\ Len(text.sections) =
                     Cardinality({i \in DOMAIN agent_responses :
                                     agent_responses[i].key # "error"})
               /\ \A k \in DOMAIN text.sections :
                     \E i \in DOMAIN agent_responses :
                        /\ text.sections[k].label =
                              upper_replace[agent_responses[i].key]
                        /\ text.sections[k].body = agent_responses[i].value

----------------------------------------------------------------------------
(* Request: arun_agent and the endpoint *)

\* the pre-flight balance check of the request failed
PaymentRequiredRaised == req.failure = "PaymentRequiredError"

\* C19: whenever a pre-flight balance check fails with PaymentRequired
\* while a request is served, the caller receives status 402, never a
\* fallback value, a synthetic task result or a generic failure.
C19_PaymentRequiredSurfaced ==
    (req.pc = "done" /\ PaymentRequiredRaised) => req.http = 402

\* C20: for a failure inside arun_agent other than PaymentRequired,
\* arun_agent raises nothing and returns an OrchestratorResponse with the
\* fixed generic message, empty agent_queries and agent_responses and no
\* balance.
C20_GenericResponseOnFailure ==
    (req.pc = "done" /\ req.failure \notin {"none", "PaymentRequiredError"})
    => /\ req.arun.kind = "returned"
       /\ req.arun.response.response = GenericMessage
       /\ req.arun.response.agent_queries = <<>>
       /\ req.arun.response.agent_responses = <<>>
       /\ req.arun.response.balance = NoObject

\* the store failed at the lookup of a conversation the request named,
\* and the generic response carries the id of the request
C20_Witness ==
    /\ req.pc = "done"
    /\ req.failure = "StoreError"
    /\ Truthy(req.conversation_id)
    /\ req.arun.kind = "returned"
    /\ req.arun.response.conversation_id = req.conversation_id

----------------------------------------------------------------------------
(* Input sanitizer *)

\* the query parallel_sages_node hands to its tasks
PreferredQuery ==
    LET cleaned == StateGet(graph.state, "cleaned_user_query", None)
    IN  IF Truthy(cleaned) THEN cleaned ELSE graph.state.user_query

\* C22: when the call of the input sanitizer fails, clean_user_input_node
\* raises nothing (only the CancelledError of a cancelled caller leaves
\* it) and returns the original user query as the cleaned query, and the
\* fan-out then runs every task on the original query; the fan-out uses
\* the cleaned query only when there is one and it is not empty.
C22_SanitizerFailsOpen ==
    /\ Cleaner.status = "raised" => Cleaner.exc = "CancelledError"
    /\ (Cleaner.status \in {"returned", "merged"} /\ Cleaner.caught # "none")
          => /\ graph.writes["clean_user_input"].cleaned_user_query =
                   graph.state.user_query
             /\ \A i \in DOMAIN tasks :
                   tasks[i].user_query = graph.state.user_query
    /\ \A i \in DOMAIN tasks : tasks[i].user_query = PreferredQuery

\* the provider call of the sanitizer failed, the failed usage event was
\* written and two tasks ran on the original query
C22_Witness ==
    /\ Cleaner.status = "merged"
    /\ Cleaner.caught = "ProviderError"
    /\ \E e \in usage : e.status = "failed"
    /\ Len(tasks) = 2
    /\ \A i \in DOMAIN tasks :
          tasks[i].pc = "done" /\ tasks[i].user_query = graph.state.user_query

----------------------------------------------------------------------------
(* Client-visible texts of a response *)

\* the final response is "Error: " followed by the text of an exception
FinalResponseCarriesError(r) ==
    /\ "error" \in DOMAIN r.response
    /\ r.response.error # "none"

\* an answer of a task is "Error: " followed by the text of an exception
AnswerCarriesError(r) ==
    \E i \in DOMAIN r.agent_responses :
       Head(r.agent_responses[i].value) = "Error: "

\* the metadata of the consolidation holds the text of an exception
ModeratorCarriesError(r) ==
    /\ "consolidation" \in DOMAIN r.moderator_responses
    /\ "error" \in DOMAIN r.moderator_responses.consolidation

\* C21: no client-visible text of the answer to a request (final
\* response, answers of the tasks, moderator metadata, detail of an error
\* status) holds the text of an internal exception: when an internal step
\* fails, only a generic safe message reaches the client.
C21_NoInternalErrorText ==
    req.pc = "done"
    => /\ req.detail = "none"
       /\ req.arun.kind = "returned"
             => LET r == req.arun.response
                IN  /\ ~FinalResponseCarriesError(r)
                    /\ ~AnswerCarriesError(r)
                    /\ ~ModeratorCarriesError(r)

----------------------------------------------------------------------------
(* Identity of the billed account *)

\* C29: every usage record and debit of a metered call made while a run
\* is served for an account is attributed to that account, which reaches
\* the billing wrapper as an argument and not from the ambient context; a
\* metered call never bills another account and never fails for lack of
\* an ambient identity.
C29_ExplicitAccount ==
    graph.status # "idle"
    => /\ \A e \in usage : e.uid = graph.state.user_id
       /\ calls[NodeCall].pc # "idle"
             => calls[NodeCall].uid \in {None, graph.state.user_id}
       /\ calls[NodeCall].outcome # "HTTPException401"
       /\ Cleaner.caught # "HTTPException401"

----------------------------------------------------------------------------
(* Balance returned with the response *)

\* the store answered every call of the request and the balance check
\* passed
RunServed ==
    /\ req.pc = "done"
    /\ req.failure \notin {"PaymentRequiredError", "StoreError",
                           "NotUniqueError"}

\* C27: the balance returned with the response of a run is the stored
\* balance read after the graph has finished: with no other request for
\* the account, it is the balance the request started with less every
\* debit made by the metered calls of the request.
C27_BalanceAfterDebits ==
    RunServed
    => /\ req.arun.kind = "returned"
       /\ "balance_tenths_of_cents" \in DOMAIN req.arun.response.balance
       /\ req.arun.response.balance.balance_tenths_of_cents =
             users[req.user_id].balance

----------------------------------------------------------------------------
(* Termination of a graph run *)

EachStageOnce == \A n \in Nodes : graph.nodes[n].runs = 1

\* C23: every graph run terminates, provided each external call returns
\* or raises: END is reached, each of the four stages having run exactly
\* once, within the limit of 10 steps.
C23_EveryRunReachesEnd ==
    (graph.status = "running")
    ~> (graph.status = "returned" /\ EachStageOnce
           /\ graph.step <= RecursionLimit)

----------------------------------------------------------------------------
(* Lazy creation of the account *)

\* C31: User.get_or_create creates an account with the default balance
\* 1000 on first reference and afterwards returns the existing account
\* without changing its balance; when two callers reference the same new
\* account id concurrently, exactly one account exists afterwards and
\* neither caller fails.
C31_LazyCreateNeverFails ==
    /\ \A a \in Accounts :
          users[a].exists
          => users[a].opening \in StartBalances \cup {DefaultBalance}
    /\ \A c \in CallIds :
          /\ calls[c].pc = "dec" => users[calls[c].uid].exists
          /\ calls[c].outcome # "NotUniqueError"

----------------------------------------------------------------------------
(* Validation of the top-up amount *)

\* amount, min and max are finite, min <= max and min <= amount <= max
InRange(amount_usd, min_usd, max_usd) ==
    /\ amount_usd.kind = "finite"
    /\ min_usd.kind = "finite"
    /\ max_usd.kind = "finite"
    /\ ~Greater(min_usd, max_usd)
    /\ ~Greater(min_usd, amount_usd)
    /\ ~Greater(amount_usd, max_usd)

\* cents x 10^exp is amount x 100 rounded to an integer: at most half a
\* cent away
RoundedCents(amount_usd, cents, exp) ==
    /\ exp = amount_usd.exp
    /\ 10 * cents - amount_usd.milli <= 5
    /\ amount_usd.milli - 10 * cents <= 5

\* the integer amount x 100 has at most 28 digits
FitsPrecision(amount_usd) ==
    amount_usd.exp = 0 \/ amount_usd.milli < 1000

\* create_payment_intent creates an intent only for an accepted amount,
\* with its cents, and answers a refused amount with 400
IntentsOnlyForAccepted ==
    \A i \in intents :
       IF InRange(i.amount_usd, Finite(payments_min_topup_usd),
                  Finite(payments_max_topup_usd))
       THEN i.intent_id # None
            => /\ i.http = 201
               /\ RoundedCents(i.amount_usd, i.amount_cents, 0)
       ELSE i.http = 400 /\ i.intent_id = None

\* C32 as stated: validate_amount_usd_and_to_cents accepts an amount
\* exactly when amount, min and max are finite, min <= max and
\* min <= amount <= max, and then returns amount x 100 rounded to an
\* integer number of cents; in every other case it raises ValidationError,
\* and create_payment_intent creates no payment intent.
C32_AcceptsExactlyInRange ==
    /\ amt.pc = "done"
       => IF InRange(amt.amount_usd, amt.min_usd, amt.max_usd)
          THEN /\ amt.raises = "none"
               /\ RoundedCents(amt.amount_usd, amt.cents, amt.exp)
          ELSE amt.raises = "ValidationError"
    /\ IntentsOnlyForAccepted

\* C32, amended: the amount is accepted exactly when amount, min and max
\* are finite, min <= max, min <= amount <= max and amount x 100 has at
\* most 28 digits; the cents returned are amount x 100 rounded to an
\* integer; in every other case ValidationError is raised, and
\* create_payment_intent creates no payment intent.
C32_AcceptsInRangeWithinPrecision ==
    /\ amt.pc = "done"
       => IF /\ InRange(amt.amount_usd, amt.min_usd, amt.max_usd)
             /\ FitsPrecision(amt.amount_usd)
          THEN /\ amt.raises = "none"
               /\ RoundedCents(amt.amount_usd, amt.cents, amt.exp)
          ELSE amt.raises = "ValidationError"
    /\ IntentsOnlyForAccepted

\* an amount of 1e25 dollars, whose cents have 28 digits, was accepted
\* within its limits, and an infinite amount was refused at the endpoint
C32_Witness ==
    /\ amt.pc = "done"
    /\ amt.amount_usd = Large(100)
    /\ amt.max_usd = Large(1000)
    /\ amt.min_usd = Finite(1000)
    /\ amt.raises = "none"
    /\ amt.cents = 10
    /\ amt.exp = 26
    /\ \E i \in intents : i.amount_usd = Infinity /\ i.http = 400

----------------------------------------------------------------------------
(* Balance equation *)

\* no call is in flight
Quiescent ==
    /\ \A c \in CallIds : calls[c].pc \in {"idle", "done"}
    /\ \A d \in DeliveryIds : hooks[d].pc \in {"idle", "done"}
    /\ \A k \in CreditIds : credits[k].pc \in {"idle", "done"}

RECURSIVE SumCost(_)
\* the sum of the costs of the usage events E
SumCost(E) ==
    IF E = {} THEN 0
    ELSE LET e == CHOOSE x \in E : TRUE
         IN  e.cost + SumCost(E \ {e})

RECURSIVE SumCredited(_, _)
\* the sum of the credited amounts of the processed payments of a among I
SumCredited(I, a) ==
    IF I = {} THEN 0
    ELSE LET i == CHOOSE x \in I : TRUE
         IN  (IF payments[i].exists /\ payments[i].processed
                    /\ payments[i].uid = a
              THEN payments[i].credited ELSE 0)
             + SumCredited(I \ {i}, a)

\* C33: in every quiescent state and for every account, the balance is
\* the opening balance (1000 for an account created on first reference)
\* plus the credited amounts of its processed payments less the costs of
\* its usage events with status success; failed usage events have cost 0
\* and stand for no debit.
C33_BalanceEquation ==
    Quiescent
    => /\ \A a \in Accounts :
             users[a].exists
             => users[a].balance =
                   users[a].opening + SumCredited(Intents, a)
                   - SumCost({e \in usage :
                                e.uid = a /\ e.status = "success"})
       /\ \A e \in usage : e.status = "failed" => e.cost = 0

----------------------------------------------------------------------------
(* Pre-flight check under concurrency *)

\* the pre-flight check of call c passes in this step and the provider
\* call is started
StartsProvider(c) ==
    /\ calls[c].pc = "check"
    /\ calls'[c].pc = "provider"

\* C34: for concurrent metered calls on one account, no provider call is
\* started once the stored balance of the account has reached -100 or
\* lower: the pre-flight check and the debits of other calls do not
\* interleave so that a call passes the check and invokes the provider
\* after the balance has dropped to the floor.
C34_NoProviderCallAtFloor ==
    [][\A c \in CallIds :
          StartsProvider(c)
          => check_user_balance(users[calls[c].uid].balance,
                                MinimumTenthsOfCents)]_vars


----------------------------------------------------------------------------
(* A failed or canceled event after the credit *)

\* the succeeded event of intent i was handled up to the credit of the
\* balance, and the PaymentRecord says succeeded
CreditStepDone(i) ==
    /\ payments[i].exists
    /\ payments[i].status = "succeeded"
    /\ payments[i].credited # NoneInt
    /\ \E d \in DeliveryIds :
          /\ hooks[d].pc = "done"
          /\ hooks[d].type = "payment_intent.succeeded"
          /\ hooks[d].intent = i
          /\ (hooks[d].applied > 0 \/ hooks[d].outcome = "AttributeError")

\* a step of the handling of a failed or canceled event of intent i
FailedStep(i) ==
    \E d \in DeliveryIds :
       /\ hooks[d].type \in FailedTypes
       /\ hooks[d].intent = i
       /\ hooks'[d] # hooks[d]

\* C35: once the PaymentRecord of an intent is succeeded and its credit was
\* handled, the processing of a payment_failed or canceled event of the same
\* intent changes neither the balance nor the status and credited amount of
\* the record.
C35_FailedEventKeepsSucceeded ==
    [][\A i \in Intents :
          CreditStepDone(i) /\ FailedStep(i)
             => /\ payments'[i].status = "succeeded"
                /\ payments'[i].credited = payments[i].credited
                /\ users' = users]_vars


----------------------------------------------------------------------------
(* Acknowledgement of a succeeded event *)

\* the exceptions a handler can end with
HandlerErrors == {"AttributeError", "NotUniqueError"}

\* C36: the webhook endpoint never answers 200 to a payment_intent.succeeded
\* event with valid account metadata whose handling failed before the credit
\* was added to the balance, so that a redelivery can still apply it.
C36_NoAckBeforeCredit ==
    \A d \in DeliveryIds :
       (/\ hooks[d].pc = "done"
        /\ hooks[d].type = "payment_intent.succeeded"
        /\ hooks[d].uid # None
        /\ hooks[d].http = 200)
          => hooks[d].outcome \notin HandlerErrors


----------------------------------------------------------------------------
(* Ownership of the conversation a caller is given *)

\* the owner of the document with the given key
OwnerOf(store, id) ==
    LET found == {i \in 1..Len(store) : store[i].id = id}
    IN  IF found = {} THEN None
        ELSE store[CHOOSE i \in found : TRUE].user_id

\* the collection holds the requested key for the caller
OwnsRequested ==
    \E i \in 1..Len(convs.store) :
       /\ convs.store[i].id = convs.conversation_id
       /\ convs.store[i].user_id = convs.user_id

\* C37: get_active_conversation_or_create_one returns a conversation owned
\* by the caller; when the requested id is absent, unknown or owned by
\* another user, the conversation returned is a new one of the caller; and
\* the call changes no conversation that existed before it.
C37_ReturnsOwnConversation ==
    [][convs.pc \in {"get", "save"}
          => /\ \A i \in 1..Len(convs.store) :
                   convs'.store[i] = convs.store[i]
             /\ convs'.pc = "returned"
                   => /\ OwnerOf(convs'.store, convs'.returned)
                            = convs.user_id
                      /\ ~OwnsRequested
                            => /\ Len(convs'.store) = Len(convs.store) + 1
                               /\ convs'.returned
                                     = convs'.store[Len(convs'.store)].id
                               /\ convs'.returned # convs.conversation_id
                               /\ OwnerOf(convs.store, convs'.returned)
                                     = None]_vars

\* a caller asked for a conversation of another user, which has a message,
\* and was given a new one of their own
C37_Witness ==
    /\ convs.pc = "returned"
    /\ OwnerOf(convs.store, convs.conversation_id) \in ConvUsers
    /\ OwnerOf(convs.store, convs.conversation_id) # convs.user_id
    /\ convs.returned # convs.conversation_id
    /\ OwnerOf(convs.store, convs.returned) = convs.user_id
    /\ \E i \in 1..Len(convs.store) :
          /\ convs.store[i].id = convs.conversation_id
          /\ convs.store[i].messages = 1

----------------------------------------------------------------------------
(* Restoration of the current-user context variable *)

\* C38: when a user_id_context block is left, by the end of its body or by
\* an exception, current_user_id_var holds the value it had when the block
\* was entered; the block left is the innermost one, so nested blocks
\* restore their values in last-in-first-out order.
C38_ContextRestored ==
    [][Len(uctx'.blocks) < Len(uctx.blocks)
          => /\ uctx'.blocks = SubSeq(uctx.blocks, 1, Len(uctx.blocks) - 1)
             /\ current_user_id_var_get(uctx'.var)
                   = uctx.blocks[Len(uctx.blocks)].before]_vars

\* a nested block was left by an exception and the variable is back to the
\* user of the enclosing block, which is still open: no set outside
\* user_id_context has been called, so that user is the only one the
\* variable can hold
C38_Witness ==
    /\ uctx.tokens = <<>>
    /\ ~uctx.spent
    /\ uctx.last.kind = "exception"
    /\ uctx.last.depth = 2
    /\ Len(uctx.blocks) = 1
    /\ current_user_id_var_get(uctx.var) \in ContextUsers
    /\ uctx.blocks[1].before = None

====
